---- MODULE Spec2Model ----
(***************************************************************************)
(* A model of the weather engine of src/src/services/weatherService.js:    *)
(* the seeded generator, the region hash, the epoch scheduler, the         *)
(* weighted roll, the transition table, the anchor walk and                *)
(* getWeatherForDate.                                                      *)
(*                                                                         *)
(* Representation.  A JavaScript int32/uint32 bit pattern is a pair        *)
(* <<hi, lo>> of 16-bit halves (the model checker's integers are 32-bit    *)
(* signed, so a 32-bit word does not fit in one).  A Date is its UTC day   *)
(* number (days since 1970-01-01); a regionId is the sequence of its       *)
(* UTF-16 char codes; rng() = k / 2^32 is represented by the word k.       *)
(***************************************************************************)
EXTENDS Integers, Sequences, FiniteSets, TLC

VARIABLES date, regionId, config, called, history, lookups, args, result

vars == <<date, regionId, config, called, history, lookups, args, result>>

----------------------------------------------------------------------------
(* Sequencing: Then(v, F) is F(v) with v evaluated first, as a statement    *)
(* that assigns v before the statements that read it.                       *)

Then(v, F(_)) == CHOOSE r \in {F(x) : x \in {v}} : TRUE

----------------------------------------------------------------------------
(* 32-bit wraparound arithmetic on <<hi, lo>> words *)

H == 65536

Xor4 == [a \in 0..15, b \in 0..15 |->
           (((a % 2) + (b % 2)) % 2)
         + 2 * ((((a \div 2) % 2) + ((b \div 2) % 2)) % 2)
         + 4 * ((((a \div 4) % 2) + ((b \div 4) % 2)) % 2)
         + 8 * (((a \div 8) + (b \div 8)) % 2)]

Xor16(a, b) ==
      Xor4[a % 16, b % 16]
    + 16 * Xor4[(a \div 16) % 16, (b \div 16) % 16]
    + 256 * Xor4[(a \div 256) % 16, (b \div 256) % 16]
    + 4096 * Xor4[a \div 4096, b \div 4096]

\* a ^ b
Xor32(a, b) == <<Xor16(a[1], b[1]), Xor16(a[2], b[2])>>

\* (a + b) | 0
Add32(a, b) ==
    LET lo == a[2] + b[2]
    IN  <<(a[1] + b[1] + (lo \div H)) % H, lo % H>>

\* (a - b) | 0
Sub32(a, b) ==
    LET lo == a[2] - b[2]
    IN  <<(a[1] - b[1] + (lo \div H)) % H, lo % H>>

\* a >>> n, for 0 < n < 16
Shr32(a, n) ==
    LET p == 2 ^ n
        q == 2 ^ (16 - n)
    IN  <<a[1] \div p, ((a[1] % p) * q) + (a[2] \div p)>>

\* a << n, for 0 < n < 16
Shl32(a, n) ==
    LET p == 2 ^ n
        q == 2 ^ (16 - n)
    IN  <<((a[1] % q) * p) + (a[2] \div q), (a[2] % q) * p>>

\* the low 16 bits of the product of two 16-bit numbers
MulLo16(a, b) == (((a % 256) * b) + ((((a \div 256) * b) % 256) * 256)) % H

\* the 32-bit product of two 16-bit numbers
Mul16(a, b) ==
    LET p0 == (a % 256) * b
        p1 == (a \div 256) * b
        s  == p0 + ((p1 % 256) * 256)
    IN  <<((p1 \div 256) + (s \div H)) % H, s % H>>

\* Math.imul(a, b)
Imul(a, b) ==
    LET ll == Mul16(a[2], b[2])
    IN  <<(ll[1] + MulLo16(a[1], b[2]) + MulLo16(a[2], b[1])) % H, ll[2]>>

\* 1 | a
Or1(a) == <<a[1], IF (a[2] % 2) = 1 THEN a[2] ELSE a[2] + 1>>

\* 61 | a  (61 = 111101b: only bit 1 of the low six bits comes from a)
Or61(a) == <<a[1], (a[2] - (a[2] % 64)) + 61 + (2 * ((a[2] \div 2) % 2))>>

\* ToInt32 of a number 0 <= n < 2^31 as a word
ToWord(n) == <<(n \div H) % H, n % H>>

\* Math.floor((k / 2^32) * n) for a word k and 0 <= n < 2^15
FloorScale(k, n) == ((k[1] * n) + ((k[2] * n) \div H)) \div H

----------------------------------------------------------------------------
(* seededRandom: the generator's state is the word a *)

\* the seed taken as the state as it is, the xor left out
seededRandomUnmixed(seed) == seed

\* let a = seed ^ 0xdeadbeef
seededRandom(seed) == Xor32(seed, <<57005, 48879>>)

\* one call of the returned closure: the new state a and the word k with
\* rng() = k / 4294967296
rngNext(a0) ==
    Then(Add32(a0, <<32586, 31765>>), LAMBDA a :
    Then(Imul(Xor32(a, Shr32(a, 13)), Or1(a)), LAMBDA t1 :
    Then(Imul(Xor32(t1, Shr32(t1, 9)), Or61(t1)), LAMBDA m :
    Then(Xor32(Add32(t1, m), t1), LAMBDA t2 :
         [a |-> a, k |-> Xor32(t2, Shr32(t2, 11))]))))

\* the first value of a fresh generator
FirstDraw(seed) == rngNext(seededRandom(seed)).k

----------------------------------------------------------------------------
(* hashRegion *)

\* hash = ((hash << 5) - hash + regionId.charCodeAt(i)) & 0xffffffff, for
\* i = 1 .. n in order
RECURSIVE hashLoop(_, _)
hashLoop(id, n) ==
    IF n = 0 THEN <<0, 0>>
    ELSE Then(hashLoop(id, n - 1),
              LAMBDA hash : Add32(Sub32(Shl32(hash, 5), hash), ToWord(id[n])))

\* Math.abs of the int32 whose bit pattern is w, as a word (0 .. 2^31)
Abs32(w) == IF w[1] >= 32768 THEN Sub32(<<0, 0>>, w) ELSE w

hashRegion(id) == Abs32(hashLoop(id, Len(id)))

\* hashRegion(regionId) % 1000
regionOffsetOf(id) ==
    LET h == hashRegion(id)
    IN  (((h[1] % 1000) * 536) + h[2]) % 1000

----------------------------------------------------------------------------
(* Dates: the UTC calendar fields of the Date whose day number is d *)

\* <<year, month (1..12), day of month>> of day number d (proleptic Gregorian)
Civil(d) ==
    LET z   == d + 719468
        era == z \div 146097
        doe == z - (era * 146097)
        yoe == (doe - (doe \div 1460) + (doe \div 36524) - (doe \div 146096)) \div 365
        doy == doe - ((365 * yoe) + (yoe \div 4) - (yoe \div 100))
        mp  == ((5 * doy) + 2) \div 153
        day == doy - (((153 * mp) + 2) \div 5) + 1
        m   == IF mp < 10 THEN mp + 3 ELSE mp - 9
        y   == yoe + (era * 400) + (IF m <= 2 THEN 1 ELSE 0)
    IN  <<y, m, day>>

getUTCFullYear(d) == Civil(d)[1]
\* date.getUTCMonth() + 1
getUTCMonth1(d) == Civil(d)[2]
getUTCDate(d) == Civil(d)[3]

\* Math.floor(date.getTime() / 86400000): a Date is modelled by this number
getDayNumber(d) == d

\* date.toLocaleDateString("en-US", {weekday: "long", timeZone: "UTC"}), as the
\* weekday's index: 0 = Sunday ... 6 = Saturday (1970-01-01 was a Thursday)
dayOfWeekOf(d) == (d + 4) % 7

\* date.toLocaleDateString("en-US", {month: "long", day: "numeric", ...}) as
\* <<month, day>>
formattedDateOf(d) == <<getUTCMonth1(d), getUTCDate(d)>>

COMET_DATE == [year |-> 2026, month |-> 6, day |-> 15]

\* A comparison that takes getUTCMonth() for the month's number.
isCometDateZeroBasedMonth(d) ==
    /\ getUTCFullYear(d) = COMET_DATE.year
    /\ getUTCMonth1(d) - 1 = COMET_DATE.month
    /\ getUTCDate(d) = COMET_DATE.day

isCometDate(d) ==
    /\ getUTCFullYear(d) = COMET_DATE.year
    /\ getUTCMonth1(d) = COMET_DATE.month
    /\ getUTCDate(d) = COMET_DATE.day

getCometEventInfo == [name |-> "Gunhilde", impact |-> "Recover 1 Morale"]
\* cometEvent: null
NoCometEvent == [name |-> "", impact |-> ""]

\* A resolver whose spring begins on March 21.
getSeasonSpringFromTheTwentyFirst(d) ==
    LET month == getUTCMonth1(d)
        day   == getUTCDate(d)
    IN  IF month = 3 /\ day >= 21 THEN "spring"
        ELSE IF month = 4 \/ month = 5 THEN "spring"
        ELSE IF month = 6 /\ day < 21 THEN "spring"
        ELSE IF month = 6 /\ day >= 21 THEN "summer"
        ELSE IF month = 7 \/ month = 8 THEN "summer"
        ELSE IF month = 9 /\ day < 22 THEN "summer"
        ELSE IF month = 9 /\ day >= 22 THEN "autumn"
        ELSE IF month = 10 \/ month = 11 THEN "autumn"
        ELSE IF month = 12 /\ day < 21 THEN "autumn"
        ELSE "winter"

getSeason(d) ==
    LET month == getUTCMonth1(d)
        day   == getUTCDate(d)
    IN  IF month = 3 /\ day >= 20 THEN "spring"
        ELSE IF month = 4 \/ month = 5 THEN "spring"
        ELSE IF month = 6 /\ day < 21 THEN "spring"
        ELSE IF month = 6 /\ day >= 21 THEN "summer"
        ELSE IF month = 7 \/ month = 8 THEN "summer"
        ELSE IF month = 9 /\ day < 22 THEN "summer"
        ELSE IF month = 9 /\ day >= 22 THEN "autumn"
        ELSE IF month = 10 \/ month = 11 THEN "autumn"
        ELSE IF month = 12 /\ day < 21 THEN "autumn"
        ELSE "winter"

----------------------------------------------------------------------------
(* Weather conditions and the transition table *)

CLEAR_SKIES == "Clear Skies"
LIGHT_RAIN  == "Light Rain"
HEAVY_RAIN  == "Heavy Rain"
STORM       == "Storm"
HOT         == "Hot"
HEATWAVE    == "Heatwave"
SNOW        == "Snow"
BLIZZARD    == "Blizzard"
FOG         == "Fog"

ALL_WEATHER_TYPES ==
    {CLEAR_SKIES, LIGHT_RAIN, HEAVY_RAIN, STORM, HOT, HEATWAVE, SNOW, BLIZZARD, FOG}

\* TRANSITION_PATHS[fromWeather][toWeather] = the alternative paths
TRANSITION_PATHS ==
    (HOT :> (   SNOW :> << <<CLEAR_SKIES, LIGHT_RAIN>>, <<LIGHT_RAIN, LIGHT_RAIN>> >>
             @@ BLIZZARD :> << <<CLEAR_SKIES, LIGHT_RAIN, SNOW>>, <<LIGHT_RAIN, SNOW, SNOW>> >>
             @@ FOG :> << <<CLEAR_SKIES>> >>))
 @@ (HEATWAVE :> (   SNOW :> << <<HOT, CLEAR_SKIES, LIGHT_RAIN>>, <<HOT, LIGHT_RAIN, LIGHT_RAIN>> >>
                  @@ BLIZZARD :> << <<HOT, CLEAR_SKIES, LIGHT_RAIN, SNOW>>,
                                    <<HOT, LIGHT_RAIN, SNOW, SNOW>> >>
                  @@ FOG :> << <<HOT, CLEAR_SKIES>>, <<LIGHT_RAIN, CLEAR_SKIES>> >>
                  @@ CLEAR_SKIES :> << <<HOT>> >>))
 @@ (SNOW :> (   HOT :> << <<CLEAR_SKIES>>, <<LIGHT_RAIN>> >>
              @@ HEATWAVE :> << <<CLEAR_SKIES, HOT>>, <<LIGHT_RAIN, CLEAR_SKIES, HOT>> >>
              @@ HEAVY_RAIN :> << <<LIGHT_RAIN>> >>
              @@ STORM :> << <<LIGHT_RAIN, HEAVY_RAIN>> >>))
 @@ (BLIZZARD :> (   HOT :> << <<SNOW, CLEAR_SKIES>>, <<FOG, CLEAR_SKIES>> >>
                  @@ HEATWAVE :> << <<SNOW, CLEAR_SKIES, HOT>>, <<FOG, CLEAR_SKIES, HOT>> >>
                  @@ CLEAR_SKIES :> << <<SNOW>>, <<FOG>> >>
                  @@ HEAVY_RAIN :> << <<LIGHT_RAIN>>, <<SNOW, LIGHT_RAIN>> >>
                  @@ STORM :> << <<LIGHT_RAIN, HEAVY_RAIN>>, <<FOG, LIGHT_RAIN, HEAVY_RAIN>> >>))
 @@ (STORM :> (   HOT :> << <<CLEAR_SKIES>>, <<FOG, CLEAR_SKIES>> >>
               @@ HEATWAVE :> << <<CLEAR_SKIES, HOT>>, <<FOG, CLEAR_SKIES, HOT>> >>
               @@ SNOW :> << <<FOG>>, <<HEAVY_RAIN, LIGHT_RAIN>> >>
               @@ BLIZZARD :> << <<FOG, SNOW>>, <<HEAVY_RAIN, LIGHT_RAIN, SNOW>> >>))
 @@ (HEAVY_RAIN :> (   CLEAR_SKIES :> << <<LIGHT_RAIN>> >>
                    @@ HOT :> << <<LIGHT_RAIN, CLEAR_SKIES>>, <<FOG, CLEAR_SKIES>> >>
                    @@ HEATWAVE :> << <<LIGHT_RAIN, CLEAR_SKIES, HOT>>, <<FOG, CLEAR_SKIES, HOT>> >>
                    @@ SNOW :> << <<LIGHT_RAIN>> >>
                    @@ BLIZZARD :> << <<LIGHT_RAIN, SNOW>>, <<FOG, SNOW>> >>))
 @@ (FOG :> (   HOT :> << <<CLEAR_SKIES>> >>
             @@ HEATWAVE :> << <<CLEAR_SKIES, HOT>> >>
             @@ HEAVY_RAIN :> << <<LIGHT_RAIN>> >>
             @@ STORM :> << <<LIGHT_RAIN, HEAVY_RAIN>> >>
             @@ BLIZZARD :> << <<SNOW>> >>))
 @@ (LIGHT_RAIN :> (   HOT :> << <<CLEAR_SKIES>> >>
                    @@ HEATWAVE :> << <<CLEAR_SKIES, HOT>> >>
                    @@ STORM :> << <<HEAVY_RAIN>> >>
                    @@ BLIZZARD :> << <<SNOW>> >>))
 @@ (CLEAR_SKIES :> (   HEATWAVE :> << <<HOT>> >>
                     @@ BLIZZARD :> << <<SNOW>>, <<FOG, SNOW>> >>
                     @@ HEAVY_RAIN :> << <<LIGHT_RAIN>> >>))

\* A lookup that reads the table in the opposite direction.
PathsForReversed(fromWeather, toWeather) ==
    IF toWeather \in DOMAIN TRANSITION_PATHS
       /\ fromWeather \in DOMAIN TRANSITION_PATHS[toWeather]
    THEN TRANSITION_PATHS[toWeather][fromWeather]
    ELSE <<>>

\* TRANSITION_PATHS[fromWeather]?.[toWeather]; <<>> stands for undefined
PathsFor(fromWeather, toWeather) ==
    IF fromWeather \in DOMAIN TRANSITION_PATHS
       /\ toWeather \in DOMAIN TRANSITION_PATHS[fromWeather]
    THEN TRANSITION_PATHS[fromWeather][toWeather]
    ELSE <<>>

\* A selection that calls rng() before it looks at the pair.
selectTransitionPathDrawingFirst(rng, fromWeather, toWeather) ==
    IF fromWeather = toWeather \/ Len(PathsFor(fromWeather, toWeather)) = 0
    THEN [path |-> <<>>, drew |-> 1]
    ELSE [path |-> PathsFor(fromWeather, toWeather)[
                     FloorScale(rngNext(rng).k,
                                Len(PathsFor(fromWeather, toWeather))) + 1],
          drew |-> 1]

\* The chosen path (<<>> stands for null) and whether rng() was called.
\* rng is the state of a fresh generator.
selectTransitionPath(rng, fromWeather, toWeather) ==
    IF fromWeather = toWeather THEN [path |-> <<>>, drew |-> 0]
    ELSE LET paths == PathsFor(fromWeather, toWeather)
         IN  IF Len(paths) = 0 THEN [path |-> <<>>, drew |-> 0]
             ELSE [path |-> paths[FloorScale(rngNext(rng).k, Len(paths)) + 1],
                   drew |-> 1]

----------------------------------------------------------------------------
(* Weighted roll table.  An entry of the configured list is                *)
(* [kind |-> "string", result |-> s] for a plain string and                *)
(* [kind |-> "object", result |-> s, weight |-> w] (weight optional) for   *)
(* an object; weights are naturals.  roll = rng() * totalWeight is kept as *)
(* its integer part: with integer weights "roll < e.weight" and            *)
(* "roll -= e.weight" depend on and act on the integer part alone.         *)

TypeError == "TypeError"

tableOf(entries) ==
    [i \in 1..Len(entries) |->
        IF entries[i].kind = "string"
        THEN [result |-> entries[i].result, weight |-> 1]
        ELSE [result |-> entries[i].result,
              weight |-> IF "weight" \in DOMAIN entries[i]
                         THEN entries[i].weight ELSE 1]]

RECURSIVE sumWeights(_, _)
sumWeights(table, n) ==
    IF n = 0 THEN 0 ELSE sumWeights(table, n - 1) + table[n].weight

\* A walk that also takes an entry when the roll equals its weight.
RECURSIVE rollWalkInclusive(_, _, _)
rollWalkInclusive(table, i, roll) ==
    IF i > Len(table)
    THEN IF Len(table) = 0 THEN TypeError ELSE table[Len(table)].result
    ELSE IF roll <= table[i].weight THEN table[i].result
    ELSE rollWalkInclusive(table, i + 1, roll - table[i].weight)

RECURSIVE rollWalk(_, _, _)
rollWalk(table, i, roll) ==
    IF i > Len(table)
    THEN IF Len(table) = 0 THEN TypeError ELSE table[Len(table)].result
    ELSE IF roll < table[i].weight THEN table[i].result
    ELSE rollWalk(table, i + 1, roll - table[i].weight)

rollFromTable(rng, entries) ==
    Then(tableOf(entries), LAMBDA table :
    Then(sumWeights(table, Len(table)), LAMBDA totalWeight :
    Then(FloorScale(rngNext(rng).k, totalWeight), LAMBDA roll :
         rollWalk(table, 1, roll))))

----------------------------------------------------------------------------
(* Regions of the model and the memo of their epoch lengths *)

\* "default"
RegionDefault == <<100, 101, 102, 97, 117, 108, 116>>
\* "Patlania Southern Point"
RegionPatlania == <<80, 97, 116, 108, 97, 110, 105, 97, 32, 83, 111, 117, 116,
                    104, 101, 114, 110, 32, 80, 111, 105, 110, 116>>

Regions == {RegionDefault, RegionPatlania}

\* 2 + Math.floor(epochRng() * 4) with epochRng = seededRandom(e * 7919 + regionOffset)
rollEpochLength(e, regionOffset) ==
    2 + FloorScale(FirstDraw(ToWord((e * 7919) + regionOffset)), 4)

\* Epochs 0 .. MemoEpochs - 1 of the modelled regions have their length
\* computed once (the value is rollEpochLength's, which is a function of
\* (e, regionOffset) alone).
MemoEpochs == 6000

RECURSIVE LengthTable(_, _, _)
LengthTable(lo, hi, regionOffset) ==
    IF hi <= lo THEN <<>>
    ELSE IF hi = lo + 1 THEN <<rollEpochLength(lo, regionOffset)>>
    ELSE LET mid == (lo + hi) \div 2
         IN  LengthTable(lo, mid, regionOffset) \o LengthTable(mid, hi, regionOffset)

OffsetDefault == regionOffsetOf(RegionDefault)
OffsetPatlania == regionOffsetOf(RegionPatlania)
LengthsDefault == LengthTable(0, MemoEpochs, OffsetDefault)
LengthsPatlania == LengthTable(0, MemoEpochs, OffsetPatlania)

epochLengthOf(e, regionOffset) ==
    IF e < MemoEpochs /\ regionOffset = OffsetDefault THEN LengthsDefault[e + 1]
    ELSE IF e < MemoEpochs /\ regionOffset = OffsetPatlania THEN LengthsPatlania[e + 1]
    ELSE rollEpochLength(e, regionOffset)

----------------------------------------------------------------------------
(* getEpochInfo *)

Max(a, b) == IF a >= b THEN a ELSE b

\* for (let e = lo; e < hi; e++) epochStart += epochLength: the amount added
RECURSIVE sumEpochLengths(_, _, _)
sumEpochLengths(lo, hi, regionOffset) ==
    IF hi <= lo THEN 0
    ELSE IF hi = lo + 1 THEN epochLengthOf(lo, regionOffset)
    ELSE LET mid == (lo + hi) \div 2
         IN  sumEpochLengths(lo, mid, regionOffset) + sumEpochLengths(mid, hi, regionOffset)

\* A scan whose next epoch begins on the last day of the previous one.
nextEpochStartOverlapping(epochEnd) == epochEnd

\* epochStart = epochEnd + 1
nextEpochStart(epochEnd) == epochEnd + 1

\* One iteration of the while (true) scan, from the loop variables in st.
scanBody(st, targetDay, regionOffset) ==
    Then(epochLengthOf(st.epochNumber, regionOffset), LAMBDA epochLength :
    Then(st.epochStart + epochLength - 1, LAMBDA epochEnd :
        IF targetDay >= st.epochStart /\ targetDay <= epochEnd
        THEN [outcome |-> "return", epochNumber |-> st.epochNumber,
              epochLength |-> epochLength, dayInEpoch |-> targetDay - st.epochStart,
              epochStart |-> st.epochStart, epochEnd |-> epochEnd,
              draws |-> st.draws + 1]
        ELSE IF st.epochStart > targetDay
        THEN [outcome |-> "throw", epochNumber |-> st.epochNumber,
              epochLength |-> epochLength, dayInEpoch |-> 0,
              epochStart |-> st.epochStart, epochEnd |-> epochEnd,
              draws |-> st.draws + 1]
        ELSE [outcome |-> "scanning", epochNumber |-> st.epochNumber + 1,
              epochLength |-> 0, dayInEpoch |-> 0,
              epochStart |-> nextEpochStart(epochEnd), epochEnd |-> 0,
              draws |-> st.draws + 1]))

\* The most iterations of the scan the model runs.
MaxScan == 4096

\* At most n iterations of the scan from st, in order, stopping at the first
\* return or throw.
RECURSIVE scanLoop(_, _, _, _)
scanLoop(st, n, targetDay, regionOffset) ==
    IF st.outcome # "scanning" \/ n <= 0 THEN st
    ELSE IF n = 1 THEN scanBody(st, targetDay, regionOffset)
    ELSE Then(scanLoop(st, n \div 2, targetDay, regionOffset),
              LAMBDA s : scanLoop(s, n - (n \div 2), targetDay, regionOffset))

\* A start estimate that takes every epoch for the shortest, 2 days.
startEpochNumFromShortest(targetDay) == Max(0, (targetDay \div 2) - 10)

\* estimatedEpochNum = Math.floor(targetDay / 5);
\* startEpochNum = Math.max(0, estimatedEpochNum - 10)
startEpochNumOf(targetDay) == Max(0, (targetDay \div 5) - 10)

\* outcome "return": the returned object; outcome "throw": the Epoch
\* calculation error; draws is the number of generators drawn from.
getEpochInfo(d, id) ==
    Then(getDayNumber(d), LAMBDA targetDay :
    Then(regionOffsetOf(id), LAMBDA regionOffset :
    Then(startEpochNumOf(targetDay), LAMBDA startEpochNum :
    Then(sumEpochLengths(0, startEpochNum, regionOffset), LAMBDA epochStart :
         scanLoop([outcome |-> "scanning", epochNumber |-> startEpochNum,
                   epochLength |-> 0, dayInEpoch |-> 0,
                   epochStart |-> epochStart, epochEnd |-> 0,
                   draws |-> startEpochNum],
                  MaxScan, targetDay, regionOffset)))))

----------------------------------------------------------------------------
(* Base weather of an epoch and the anchor walk *)

\* seasonConfig is [conditions |-> the configured list]
getEpochBaseWeather(epochNumber, seasonConfig, id) ==
    Then(Add32(ToWord(epochNumber * 31337), hashRegion(id)), LAMBDA epochSeed :
         rollFromTable(seededRandom(epochSeed), seasonConfig.conditions))

ANCHOR_EPOCH == 5765
ANCHOR_WEATHER == CLEAR_SKIES

\* The body of the walk's for loop for epoch e; st holds effectiveWeather and
\* the number of generators drawn from so far.
walkBody(e, st, seasonConfig, id, regionOffset) ==
    Then(epochLengthOf(e, regionOffset), LAMBDA epochLength :
    Then(getEpochBaseWeather(e, seasonConfig, id), LAMBDA baseWeather :
    Then(ToWord((e * 54321) + regionOffset), LAMBDA pathSeed :
    Then(selectTransitionPath(seededRandom(pathSeed), st.effectiveWeather, baseWeather),
         LAMBDA sel :
         LET path         == sel.path
             lastDayIndex == epochLength - 1
         IN  [effectiveWeather |->
                 IF Len(path) > 0
                 THEN IF lastDayIndex < Len(path) THEN path[lastDayIndex + 1]
                      ELSE baseWeather
                 ELSE baseWeather,
              draws |-> st.draws + 2 + sel.drew]))))

\* for (let e = lo; e < hi; e++) body, in order
RECURSIVE walkLoop(_, _, _, _, _, _)
walkLoop(lo, hi, st, seasonConfig, id, regionOffset) ==
    IF hi <= lo THEN st
    ELSE IF hi = lo + 1 THEN walkBody(lo, st, seasonConfig, id, regionOffset)
    ELSE LET mid == (lo + hi) \div 2
         IN  Then(walkLoop(lo, mid, st, seasonConfig, id, regionOffset),
                  LAMBDA s : walkLoop(mid, hi, s, seasonConfig, id, regionOffset))

\* A walk that starts one epoch before the anchor epoch.
getEffectiveEpochEndWeatherFromEarlierEpoch(epochNumber, seasonConfig, id) ==
    Then(regionOffsetOf(id), LAMBDA regionOffset :
         walkLoop(ANCHOR_EPOCH - 1, epochNumber + 1,
                  [effectiveWeather |-> ANCHOR_WEATHER, draws |-> 0],
                  seasonConfig, id, regionOffset))

\* [effectiveWeather |-> the returned condition, draws |-> generators drawn from]
getEffectiveEpochEndWeather(epochNumber, seasonConfig, id) ==
    Then(regionOffsetOf(id), LAMBDA regionOffset :
         walkLoop(ANCHOR_EPOCH, epochNumber + 1,
                  [effectiveWeather |-> ANCHOR_WEATHER, draws |-> 0],
                  seasonConfig, id, regionOffset))

----------------------------------------------------------------------------
(* Mechanical impacts.  A multiplier is held in hundredths (0.75 is 75); an *)
(* impact string is a tuple: <<text>> or, for the two templates with a      *)
(* percentage, <<text, Math.round(mult * 100)>>.  A property that an impact *)
(* profile lacks is a field the record lacks.                               *)

WEATHER_IMPACTS ==
    (CLEAR_SKIES :> [roadMult |-> 100, offRoadMult |-> 100, canForcedMarch |-> TRUE,
                     canNightMarch |-> TRUE, zeroVisibility |-> FALSE,
                     canFordRivers |-> TRUE, type |-> "None", special |-> ""])
 @@ (LIGHT_RAIN :> [roadMult |-> 100, offRoadMult |-> 100, canForcedMarch |-> TRUE,
                    canNightMarch |-> TRUE, zeroVisibility |-> FALSE,
                    canFordRivers |-> TRUE, type |-> "None", special |-> ""])
 @@ (HEAVY_RAIN :> [roadMult |-> 75, offRoadMult |-> 50, canForcedMarch |-> TRUE,
                    canNightMarch |-> FALSE, zeroVisibility |-> FALSE,
                    canFordRivers |-> FALSE, type |-> "Bad", special |-> ""])
 @@ (STORM :> [roadMult |-> 50, offRoadMult |-> 25, canForcedMarch |-> FALSE,
               canNightMarch |-> FALSE, zeroVisibility |-> FALSE,
               canFordRivers |-> FALSE, type |-> "Very Bad", special |-> ""])
 @@ (HOT :> [roadMult |-> 100, offRoadMult |-> 100, canForcedMarch |-> TRUE,
             canNightMarch |-> TRUE, zeroVisibility |-> FALSE,
             canFordRivers |-> TRUE, type |-> "None",
             special |-> "Day Marching more than 6 miles requires morale check. Force marching requires morale check."])
 @@ (HEATWAVE :> [roadMult |-> 75, offRoadMult |-> 50, canForcedMarch |-> FALSE,
                  canNightMarch |-> TRUE, zeroVisibility |-> FALSE,
                  canFordRivers |-> TRUE, type |-> "None",
                  special |-> "Day Marching gives -1 Morale. Night Marching is fine."])
 @@ (SNOW :> [roadMult |-> 75, offRoadMult |-> 50, canForcedMarch |-> TRUE,
              canNightMarch |-> TRUE, zeroVisibility |-> FALSE,
              canFordRivers |-> TRUE, type |-> "Bad", special |-> ""])
 @@ (BLIZZARD :> [roadMult |-> 25, offRoadMult |-> 0, canForcedMarch |-> FALSE,
                  canNightMarch |-> FALSE, zeroVisibility |-> TRUE,
                  canFordRivers |-> FALSE, type |-> "Very Bad",
                  special |-> "Marching gives -1 Morale."])
 @@ (FOG :> [roadMult |-> 100, offRoadMult |-> 100, canForcedMarch |-> FALSE,
             canNightMarch |-> FALSE, zeroVisibility |-> TRUE,
             canFordRivers |-> FALSE, type |-> "Very Bad",
             special |-> "1-in-6 wrong turn at forked roads. Off-road: 2-in-6 chance of becoming lost."])

\* {}: the profile with no property
EmptyProfile == [x \in {} |-> 0]

Has(p, f) == f \in DOMAIN p
\* the truthiness of a boolean property f of p (undefined and false are falsy)
Flag(p, f) == Has(p, f) /\ p[f]

\* A formatter that reports zero visibility ahead of the march restrictions.
formatImpactsVisibilityFirst(impactData) ==
    (IF Has(impactData, "roadMult") /\ impactData.roadMult < 100
     THEN << <<"Road travel at % speed", impactData.roadMult>> >> ELSE <<>>)
 \o (IF Has(impactData, "offRoadMult") /\ impactData.offRoadMult < 100
     THEN IF impactData.offRoadMult = 0
          THEN << <<"Off-road travel impossible">> >>
          ELSE << <<"Off-road travel at % speed", impactData.offRoadMult>> >>
     ELSE <<>>)
 \o (IF Flag(impactData, "zeroVisibility")
     THEN << <<"Zero visibility">> >> ELSE <<>>)
 \o (IF ~Flag(impactData, "canNightMarch")
     THEN << <<"Night marching not possible">> >> ELSE <<>>)
 \o (IF ~Flag(impactData, "canForcedMarch")
     THEN << <<"Forced marching not possible">> >> ELSE <<>>)
 \o (IF ~Flag(impactData, "canFordRivers")
     THEN << <<"Cannot ford rivers">> >> ELSE <<>>)
 \o (IF Has(impactData, "type") /\ impactData.type = "Bad"
     THEN << <<"-1 to battle rolls">>, <<"Scouting range reduced by 1 hex">> >>
     ELSE IF Has(impactData, "type") /\ impactData.type = "Very Bad"
     THEN << <<"-1 to battle rolls">>, <<"Scouting range reduced by 2 hexes">> >>
     ELSE <<>>)
 \o (IF Has(impactData, "special") /\ impactData.special # "" THEN << <<impactData.special>> >> ELSE <<>>)

formatImpacts(impactData) ==
    (IF Has(impactData, "roadMult") /\ impactData.roadMult < 100
     THEN << <<"Road travel at % speed", impactData.roadMult>> >> ELSE <<>>)
 \o (IF Has(impactData, "offRoadMult") /\ impactData.offRoadMult < 100
     THEN IF impactData.offRoadMult = 0
          THEN << <<"Off-road travel impossible">> >>
          ELSE << <<"Off-road travel at % speed", impactData.offRoadMult>> >>
     ELSE <<>>)
 \o (IF ~Flag(impactData, "canForcedMarch")
     THEN << <<"Forced marching not possible">> >> ELSE <<>>)
 \o (IF ~Flag(impactData, "canNightMarch")
     THEN << <<"Night marching not possible">> >> ELSE <<>>)
 \o (IF Flag(impactData, "zeroVisibility")
     THEN << <<"Zero visibility">> >> ELSE <<>>)
 \o (IF ~Flag(impactData, "canFordRivers")
     THEN << <<"Cannot ford rivers">> >> ELSE <<>>)
 \o (IF Has(impactData, "type") /\ impactData.type = "Bad"
     THEN << <<"-1 to battle rolls">>, <<"Scouting range reduced by 1 hex">> >>
     ELSE IF Has(impactData, "type") /\ impactData.type = "Very Bad"
     THEN << <<"-1 to battle rolls">>, <<"Scouting range reduced by 2 hexes">> >>
     ELSE <<>>)
 \o (IF Has(impactData, "special") /\ impactData.special # "" THEN << <<impactData.special>> >> ELSE <<>>)

----------------------------------------------------------------------------
(* getWeatherForDate.  The value is the outcome of one call: outcome        *)
(* "return" with the WeatherResult's fields, or outcome "throw" with the    *)
(* error; beside them day (the argument), the call's locals (epoch, base,   *)
(* previous effective weather, path; "" or <<>> or -1 where the call never  *)
(* computed them) and draws, the number of times the call drew from a       *)
(* generator.                                                               *)

NoSeasonError == "No weather data for season"
EpochError == "Epoch calculation error"

\* seasonalWeatherConfig[season] is defined
HasSeason(seasonalWeatherConfig, season) == season \in DOMAIN seasonalWeatherConfig

\* A call that falls back to clear skies where the code throws.
DefaultedToClearSkies(d, season, error, draws) ==
    [outcome |-> "return", error |-> "", day |-> d,
     date |-> formattedDateOf(d), dayOfWeek |-> dayOfWeekOf(d), season |-> season,
     condition |-> CLEAR_SKIES, impacts |-> <<>>,
     impactData |-> WEATHER_IMPACTS[CLEAR_SKIES],
     hasComet |-> FALSE, cometEvent |-> NoCometEvent,
     epochNumber |-> -1, epochLength |-> -1, dayInEpoch |-> -1,
     currentEpochWeather |-> "", prevEffectiveWeather |-> "", path |-> <<>>,
     pathDrew |-> 0, draws |-> draws]

\* throw new Error(...)
Thrown(d, season, error, draws) ==
    [outcome |-> "throw", error |-> error, day |-> d,
     date |-> <<>>, dayOfWeek |-> -1, season |-> season,
     condition |-> "", impacts |-> <<>>, impactData |-> EmptyProfile,
     hasComet |-> FALSE, cometEvent |-> NoCometEvent,
     epochNumber |-> -1, epochLength |-> -1, dayInEpoch |-> -1,
     currentEpochWeather |-> "", prevEffectiveWeather |-> "", path |-> <<>>,
     pathDrew |-> 0, draws |-> draws]

\* the object returned on the comet date
cometResult(d, season) ==
    [outcome |-> "return", error |-> "", day |-> d,
     date |-> formattedDateOf(d), dayOfWeek |-> dayOfWeekOf(d),
     season |-> season,
     condition |-> CLEAR_SKIES, impacts |-> <<>>,
     impactData |-> WEATHER_IMPACTS[CLEAR_SKIES],
     hasComet |-> TRUE, cometEvent |-> getCometEventInfo,
     epochNumber |-> -1, epochLength |-> -1, dayInEpoch |-> -1,
     currentEpochWeather |-> "", prevEffectiveWeather |-> "", path |-> <<>>,
     pathDrew |-> 0, draws |-> 0]

\* A resolution that shows the epoch's base weather from its first day.
resolveConditionWithoutPath(path, dayInEpoch, currentEpochWeather) ==
    currentEpochWeather

\* "Determine actual weather condition": the if (path) statement
resolveCondition(path, dayInEpoch, currentEpochWeather) ==
    IF Len(path) > 0
    THEN IF dayInEpoch < Len(path) THEN path[dayInEpoch + 1]
         ELSE currentEpochWeather
    ELSE currentEpochWeather

\* the object the call returns, with the call's locals
weatherResult(d, season, epochInfo, currentEpochWeather, prev, sel, condition) ==
    LET impactData == IF condition \in DOMAIN WEATHER_IMPACTS
                      THEN WEATHER_IMPACTS[condition] ELSE EmptyProfile
    IN  [outcome |-> "return", error |-> "", day |-> d,
         date |-> formattedDateOf(d), dayOfWeek |-> dayOfWeekOf(d),
         season |-> season,
         condition |-> condition, impacts |-> formatImpacts(impactData),
         impactData |-> impactData,
         hasComet |-> FALSE, cometEvent |-> NoCometEvent,
         epochNumber |-> epochInfo.epochNumber,
         epochLength |-> epochInfo.epochLength,
         dayInEpoch |-> epochInfo.dayInEpoch,
         currentEpochWeather |-> currentEpochWeather,
         prevEffectiveWeather |-> prev.effectiveWeather, path |-> sel.path,
         pathDrew |-> sel.drew,
         draws |-> epochInfo.draws + 1 + prev.draws + sel.drew]

\* the call from "Get epoch info for this date" on, statement by statement
resolveWeather(d, seasonData, id, season) ==
    Then(getEpochInfo(d, id), LAMBDA epochInfo :
    IF epochInfo.outcome # "return"
    THEN Thrown(d, season, EpochError, epochInfo.draws)
    ELSE
    Then(getEpochBaseWeather(epochInfo.epochNumber, seasonData, id),
         LAMBDA currentEpochWeather :
    Then(getEffectiveEpochEndWeather(epochInfo.epochNumber - 1, seasonData, id),
         LAMBDA prev :
    Then(ToWord((epochInfo.epochNumber * 54321) + regionOffsetOf(id)),
         LAMBDA pathSeed :
    Then(selectTransitionPath(seededRandom(pathSeed),
                              prev.effectiveWeather, currentEpochWeather),
         LAMBDA sel :
    Then(resolveCondition(sel.path, epochInfo.dayInEpoch, currentEpochWeather),
         LAMBDA condition :
         weatherResult(d, season, epochInfo, currentEpochWeather, prev, sel,
                       condition)))))))

\* A call whose continuity walk rolls the epochs before the date's epoch
\* from the table of the season the previous epoch ended in.
getWeatherForDateWalkingEarlierSeason(d, seasonalWeatherConfig, id) ==
    Then(getSeason(d), LAMBDA season :
         IF ~HasSeason(seasonalWeatherConfig, season)
         THEN Thrown(d, season, NoSeasonError, 0)
         ELSE IF isCometDate(d) THEN cometResult(d, season)
         ELSE
         Then(getEpochInfo(d, id), LAMBDA epochInfo :
         IF epochInfo.outcome # "return"
         THEN Thrown(d, season, EpochError, epochInfo.draws)
         ELSE
         Then(getSeason(epochInfo.epochStart - 1), LAMBDA earlier :
         Then(getEpochBaseWeather(epochInfo.epochNumber,
                                  seasonalWeatherConfig[season], id),
              LAMBDA currentEpochWeather :
         Then(getEffectiveEpochEndWeather(
                  epochInfo.epochNumber - 1,
                  IF HasSeason(seasonalWeatherConfig, earlier)
                  THEN seasonalWeatherConfig[earlier]
                  ELSE seasonalWeatherConfig[season], id),
              LAMBDA prev :
         Then(selectTransitionPath(
                  seededRandom(ToWord((epochInfo.epochNumber * 54321)
                                      + regionOffsetOf(id))),
                  prev.effectiveWeather, currentEpochWeather),
              LAMBDA sel :
              weatherResult(d, season, epochInfo, currentEpochWeather, prev, sel,
                            resolveCondition(sel.path, epochInfo.dayInEpoch,
                                             currentEpochWeather))))))))

getWeatherForDate(d, seasonalWeatherConfig, id) ==
    Then(getSeason(d), LAMBDA season :
         IF ~HasSeason(seasonalWeatherConfig, season)
         THEN Thrown(d, season, NoSeasonError, 0)
         ELSE IF isCometDate(d) THEN cometResult(d, season)
         ELSE resolveWeather(d, seasonalWeatherConfig[season], id, season))

----------------------------------------------------------------------------
(* The inputs of the model *)

Str(s) == [kind |-> "string", result |-> s]
Obj(s, w) == [kind |-> "object", result |-> s, weight |-> w]
ObjNoWeight(s) == [kind |-> "object", result |-> s]

\* A region whose seasons differ: one condition in spring and in summer, two
\* plain strings in autumn, a weighted table in winter.
ConfigSeasons ==
    [spring |-> [conditions |-> <<Obj(CLEAR_SKIES, 1)>>],
     summer |-> [conditions |-> <<ObjNoWeight(HOT)>>],
     autumn |-> [conditions |-> <<Str(HOT), Str(BLIZZARD)>>],
     winter |-> [conditions |-> <<Obj(SNOW, 3), Obj(BLIZZARD, 1), Obj(STORM, 2)>>]]

\* A region with the same weighted table of all nine conditions in every season.
NineConditions ==
    [conditions |-> <<Obj(CLEAR_SKIES, 4), Obj(LIGHT_RAIN, 3), Obj(HEAVY_RAIN, 2),
                      Obj(STORM, 1), Obj(HOT, 2), Obj(HEATWAVE, 1), Obj(SNOW, 2),
                      Obj(BLIZZARD, 1), Obj(FOG, 1)>>]
ConfigNine ==
    [spring |-> NineConditions, summer |-> NineConditions,
     autumn |-> NineConditions, winter |-> NineConditions]

\* An incomplete region definition: no spring and no autumn.
ConfigPartial ==
    [summer |-> [conditions |-> <<Str(HOT), Str(HEATWAVE)>>],
     winter |-> [conditions |-> <<Str(SNOW), Str(FOG)>>]]

Configs == {ConfigSeasons, ConfigNine, ConfigPartial}

\* A run covers this many consecutive days from its first day.
WindowDays == 12

\* The most times a caller calls again after an error, in one run.
MaxRetries == 1

\* First days of the runs, for every region: 1969-03-31 (spring before 1970),
\* 1969-12-30 (the run crosses day 0), 1970-02-22 (the scan's start estimate
\* leaves epoch 0 at day 55) and 2026-06-10 (the run holds the comet date).
CommonStarts == {-276, -2, 52, 20614}

\* Around the anchor epoch of "default" (it starts on day 20033) and the
\* change from autumn to winter that follows it (day 20078).
DefaultStarts == {20026, 20038, 20050, 20072}

\* Around the anchor epoch of "Patlania Southern Point" (it starts on day
\* 20182) and the change from spring to summer that follows it (day 20260).
PatlaniaStarts == {20178, 20253}

StartsOf(id) ==
    CommonStarts \cup (IF id = RegionDefault THEN DefaultStarts ELSE PatlaniaStarts)

----------------------------------------------------------------------------
(* The state machine.  date is today's day number.  A caller (the daily     *)
(* job) calls getWeatherForDate for today, may call again after an error,   *)
(* and the next day comes; history holds the outcome of every call of the   *)
(* run.  Under SpecEpoch the caller calls getEpochInfo instead, and lookups *)
(* holds the outcomes with their day.  args and result are the arguments    *)
(* and the outcome of a single call of one of the other functions, under    *)
(* the specifications further down; they stay empty here.                   *)

Last(seq) == seq[Len(seq)]

DaysCalled == Cardinality({history[i].day : i \in 1..Len(history)})

Retries == Len(history) - DaysCalled

Init ==
    /\ regionId \in Regions
    /\ date \in StartsOf(regionId)
    /\ config \in Configs
    /\ called = FALSE
    /\ history = <<>>
    /\ lookups = <<>>
    /\ args = <<>>
    /\ result = <<>>

GetWeatherForDate ==
    /\ ~called
    /\ history' = Append(history, getWeatherForDate(date, config, regionId))
    /\ called' = TRUE
    /\ UNCHANGED <<date, regionId, config, lookups, args, result>>

Retry ==
    /\ called
    /\ Len(history) > 0
    /\ Last(history).outcome = "throw"
    /\ Retries < MaxRetries
    /\ history' = Append(history, getWeatherForDate(date, config, regionId))
    /\ UNCHANGED <<date, regionId, config, called, lookups, args, result>>

DaysRun == DaysCalled + Len(lookups)

NextDay ==
    /\ called
    /\ DaysRun < WindowDays
    /\ date' = date + 1
    /\ called' = FALSE
    /\ UNCHANGED <<regionId, config, history, lookups, args, result>>

Next == GetWeatherForDate \/ Retry \/ NextDay

Spec == Init /\ [][Next]_vars

InitEpoch ==
    /\ regionId \in Regions
    /\ date \in StartsOf(regionId)
    /\ config = ConfigNine
    /\ called = FALSE
    /\ history = <<>>
    /\ lookups = <<>>
    /\ args = <<>>
    /\ result = <<>>

GetEpochInfo ==
    /\ ~called
    /\ lookups' = Append(lookups, [day |-> date, info |-> getEpochInfo(date, regionId)])
    /\ called' = TRUE
    /\ UNCHANGED <<date, regionId, config, history, args, result>>

NextEpoch == GetEpochInfo \/ NextDay

SpecEpoch == InitEpoch /\ [][NextEpoch]_vars

----------------------------------------------------------------------------
(* Properties.  Those of getEpochInfo are stated on lookups and hold under  *)
(* SpecEpoch; those of getWeatherForDate are stated on history and hold     *)
(* under Spec.                                                              *)

Calls == 1..Len(history)

\* call i returned a WeatherResult
Returned(i) == history[i].outcome = "return"

\* call i returned a WeatherResult that the epoch pipeline resolved
Resolved(i) == Returned(i) /\ ~history[i].hasComet

\* the configuration of the run has an entry for the season of day d
SeasonConfigured(d) == HasSeason(config, getSeason(d))

\* Every epoch the memo tables hold has a length of 2, 3, 4 or 5 days.
LengthsInRange ==
    \A e \in 0..(MemoEpochs - 1) :
        /\ epochLengthOf(e, OffsetDefault) \in 2..5
        /\ epochLengthOf(e, OffsetPatlania) \in 2..5

\* The epoch a lookup returned is epoch r.epochNumber of the partition that
\* starts epoch 0 on day 0 and each next epoch on the day after the previous
\* one's last day.
OfPartition(day, r) ==
    LET regionOffset == regionOffsetOf(regionId)
    IN  /\ r.epochNumber >= 0
        /\ r.epochLength = rollEpochLength(r.epochNumber, regionOffset)
        /\ r.epochLength \in 2..5
        /\ r.epochStart = sumEpochLengths(0, r.epochNumber, regionOffset)
        /\ r.epochEnd = r.epochStart + r.epochLength - 1
        /\ r.epochEnd + 1 = sumEpochLengths(0, r.epochNumber + 1, regionOffset)
        /\ r.dayInEpoch = day - r.epochStart

\* Two lookups for consecutive days return the same epoch, or two epochs with
\* consecutive numbers of which the later starts on the day after the earlier
\* one's last day.
Adjacent(a, b) ==
    \/ /\ b.epochNumber = a.epochNumber
       /\ b.epochStart = a.epochStart
       /\ b.epochEnd = a.epochEnd
    \/ /\ b.epochNumber = a.epochNumber + 1
       /\ b.epochStart = a.epochEnd + 1

\* C2: the epochs are contiguous and do not overlap, epoch 0 starts on day 0,
\* every epoch is 2 to 5 days long, and the start, end and length that
\* getEpochInfo returns are those of the partition's epoch of that number.
C2_EpochsContiguous ==
    /\ LengthsInRange
    /\ Len(lookups) > 0 /\ Last(lookups).info.outcome = "return"
         => OfPartition(Last(lookups).day, Last(lookups).info)
    /\ \A i \in 1..(Len(lookups) - 1) :
         (lookups[i].info.outcome = "return" /\ lookups[i + 1].info.outcome = "return")
            => Adjacent(lookups[i].info, lookups[i + 1].info)

\* A run of lookups after the anchor epoch that crossed from one epoch into
\* the next.
C2_Witness ==
    \E i \in 1..(Len(lookups) - 1) :
        /\ lookups[i].info.outcome = "return"
        /\ lookups[i + 1].info.outcome = "return"
        /\ lookups[i].info.epochNumber > ANCHOR_EPOCH
        /\ lookups[i + 1].info.epochNumber = lookups[i].info.epochNumber + 1
        /\ lookups[i].info.dayInEpoch > 0

\* C3: for every day, the days before 1970 included, getEpochInfo returns an
\* epoch, and the epoch holds the day.
C3_EveryDayInAnEpoch ==
    \A i \in 1..Len(lookups) :
        /\ lookups[i].info.outcome = "return"
        /\ lookups[i].info.epochStart <= lookups[i].day
        /\ lookups[i].day <= lookups[i].info.epochEnd

\* call i resolved a day at or past the end of the path its epoch began with
BeyondPath(i) == Resolved(i) /\ history[i].dayInEpoch >= Len(history[i].path)

\* C4: two dates of one epoch, both at or past the end of the epoch's
\* transition path, resolve to the same condition.
C4_ContinuityWithinEpoch ==
    \A i, j \in Calls :
        (/\ BeyondPath(i) /\ BeyondPath(j)
         /\ history[i].epochNumber = history[j].epochNumber)
            => history[i].condition = history[j].condition

\* C5: when a transition path of length L is selected, the date resolves to
\* path[dayInEpoch] while dayInEpoch < L and to the epoch's rolled base
\* weather from dayInEpoch = L on; the path is one the table holds from the
\* previous effective weather to the base weather.
C5_TransitionCompletion ==
    \A i \in Calls :
        (Resolved(i) /\ Len(history[i].path) > 0) =>
            LET r == history[i]
                L == Len(r.path)
            IN  /\ r.currentEpochWeather =
                      getEpochBaseWeather(r.epochNumber, config[r.season], regionId)
                /\ \E n \in 1..Len(PathsFor(r.prevEffectiveWeather, r.currentEpochWeather)) :
                      PathsFor(r.prevEffectiveWeather, r.currentEpochWeather)[n] = r.path
                /\ r.dayInEpoch < L => r.condition = r.path[r.dayInEpoch + 1]
                /\ r.dayInEpoch >= L => r.condition = r.currentEpochWeather

\* A run that showed a step of a path that differs from the base weather, and
\* later the base weather once the path was over.
C5_Witness ==
    \E i, j \in Calls :
        /\ Resolved(i) /\ Resolved(j)
        /\ history[i].epochNumber = history[j].epochNumber
        /\ Len(history[i].path) > 0 /\ history[j].path = history[i].path
        /\ history[i].dayInEpoch < Len(history[i].path)
        /\ history[i].condition # history[i].currentEpochWeather
        /\ history[j].dayInEpoch >= Len(history[j].path)
        /\ history[j].condition = history[j].currentEpochWeather

\* C6: the previous effective weather a call uses for a date of epoch N is
\* the condition getWeatherForDate returned, for the same region and
\* configuration, for the last day of epoch N-1.
C6_PrevIsWeatherOfLastDay ==
    \A i, j \in Calls :
        (/\ Returned(i) /\ Resolved(j)
         /\ history[i].day = history[j].day - history[j].dayInEpoch - 1)
            => history[j].prevEffectiveWeather = history[i].condition

\* day d is 2026-06-15
OnCometDay(d) ==
    getUTCFullYear(d) = 2026 /\ getUTCMonth1(d) = 6 /\ getUTCDate(d) = 15

\* what the comet override returns
CometOutcome(r) ==
    /\ r.outcome = "return"
    /\ r.condition = CLEAR_SKIES
    /\ r.impacts = <<>>
    /\ r.hasComet
    /\ r.cometEvent = [name |-> "Gunhilde", impact |-> "Recover 1 Morale"]
    /\ r.draws = 0

C8_HotToBlizzardAsStated ==
    \A i \in Calls :
        (/\ Resolved(i)
         /\ history[i].prevEffectiveWeather = HOT
         /\ history[i].currentEpochWeather = BLIZZARD)
            => /\ history[i].path = <<SNOW, CLEAR_SKIES>>
               /\ history[i].dayInEpoch = 0 => history[i].condition = SNOW
               /\ history[i].dayInEpoch = 1 => history[i].condition = CLEAR_SKIES
               /\ history[i].dayInEpoch >= 2 => history[i].condition = BLIZZARD

\* C8: from Hot to a base weather of Blizzard the path is
\* [Clear Skies, Light Rain, Snow] or [Light Rain, Snow, Snow]: days 0 to 2
\* show the path's entries and the days from 3 on show Blizzard.
C8_HotToBlizzard ==
    \A i \in Calls :
        (/\ Resolved(i)
         /\ history[i].prevEffectiveWeather = HOT
         /\ history[i].currentEpochWeather = BLIZZARD)
            => /\ history[i].path \in {<<CLEAR_SKIES, LIGHT_RAIN, SNOW>>,
                                       <<LIGHT_RAIN, SNOW, SNOW>>}
               /\ history[i].dayInEpoch < 3
                    => history[i].condition = history[i].path[history[i].dayInEpoch + 1]
               /\ history[i].dayInEpoch >= 3 => history[i].condition = BLIZZARD

\* A run through an epoch that came from Hot to Blizzard: a day on the path
\* and day 3, which shows Blizzard.
C8_Witness ==
    \E i, j \in Calls :
        /\ Resolved(i) /\ Resolved(j)
        /\ history[i].epochNumber = history[j].epochNumber
        /\ history[i].prevEffectiveWeather = HOT
        /\ history[i].currentEpochWeather = BLIZZARD
        /\ history[j].prevEffectiveWeather = HOT
        /\ history[j].currentEpochWeather = BLIZZARD
        /\ history[i].dayInEpoch < 3
        /\ history[j].dayInEpoch = 3 /\ history[j].condition = BLIZZARD

\* the table of the season of day d is the single condition Clear Skies
OnlyClearSkies(d) ==
    /\ SeasonConfigured(d)
    /\ Len(config[getSeason(d)].conditions) = 1
    /\ config[getSeason(d)].conditions[1].result = CLEAR_SKIES

\* C9: when a season's table is the single condition Clear Skies, every date
\* of that season other than the comet date resolves to Clear Skies with no
\* impacts.
C9_SingleConditionSeason ==
    \A i \in Calls :
        (OnlyClearSkies(history[i].day) /\ ~OnCometDay(history[i].day))
            => /\ history[i].outcome = "return"
               /\ history[i].condition = CLEAR_SKIES
               /\ history[i].impacts = <<>>

\* C10: a date whose season has no entry in the configuration makes the call
\* throw "No weather data for season" naming the season, with no condition in
\* its place, before any epoch is computed and any generator drawn from; the
\* same call made again fails in the same way.
C10_MissingSeasonThrows ==
    \A i \in Calls :
        ~SeasonConfigured(history[i].day) =>
            /\ history[i].outcome = "throw"
            /\ history[i].error = NoSeasonError
            /\ history[i].season = getSeason(history[i].day)
            /\ history[i].condition = ""
            /\ history[i].epochNumber = -1
            /\ history[i].draws = 0
            /\ \A j \in Calls :
                  history[j].day = history[i].day => history[j] = history[i]

\* A call for a date of an unconfigured season that was made twice, on the
\* comet date.
C10_Witness ==
    \E i, j \in Calls :
        /\ i < j
        /\ history[i].day = history[j].day
        /\ OnCometDay(history[i].day)
        /\ history[i].error = NoSeasonError
        /\ history[j].error = NoSeasonError

----------------------------------------------------------------------------
(* rollFromTable on its own.  args is the seed of a fresh generator and the *)
(* configured list; result is <<the value returned>>, TypeError standing    *)
(* for the TypeError that reading table[-1].result throws.                  *)

\* the fields the other specifications use, which stay as they start
run == <<date, regionId, config, called, history, lookups>>

InitIdle ==
    /\ date = 0
    /\ regionId = RegionDefault
    /\ config = ConfigNine
    /\ called = FALSE
    /\ history = <<>>
    /\ lookups = <<>>

RollTables ==
    { <<>>,
      <<Obj(HOT, 0)>>,
      <<Obj(HOT, 0), Obj(FOG, 0)>>,
      <<Obj(HOT, 0), Obj(FOG, 2)>>,
      <<Str(HOT), Str(BLIZZARD)>>,
      <<Str(CLEAR_SKIES), Str(LIGHT_RAIN), Str(HEAVY_RAIN)>>,
      <<ObjNoWeight(HOT), Obj(FOG, 2), Str(SNOW)>>,
      <<Obj(SNOW, 3), Obj(BLIZZARD, 1), Obj(STORM, 2)>>,
      NineConditions.conditions }

InitRoll ==
    /\ InitIdle
    /\ args \in [seed : 0 .. 15, entries : RollTables]
    /\ result = <<>>

RollFromTable ==
    /\ result = <<>>
    /\ result' = <<rollFromTable(seededRandom(ToWord(args.seed)), args.entries)>>
    /\ UNCHANGED <<run, args>>

SpecRoll == InitRoll /\ [][RollFromTable]_vars

\* the weight the selection gives an entry of the configured list
WeightOfEntry(entry) ==
    IF entry.kind = "object" /\ "weight" \in DOMAIN entry THEN entry.weight ELSE 1

\* w_1 + ... + w_n of the configured list
RECURSIVE WeightUpTo(_, _)
WeightUpTo(entries, n) ==
    IF n = 0 THEN 0 ELSE WeightUpTo(entries, n - 1) + WeightOfEntry(entries[n])

AllZeroWeights(entries) ==
    Len(entries) > 0 /\ \A i \in 1..Len(entries) : WeightOfEntry(entries[i]) = 0

AllPositiveWeights(entries) ==
    Len(entries) > 0 /\ \A i \in 1..Len(entries) : WeightOfEntry(entries[i]) > 0

\* C11: given an empty list or a list whose weights are all zero, rollFromTable
\* does not throw; with all weights zero it returns the last entry.
C11_NeverThrows ==
    (result # <<>> /\ (Len(args.entries) = 0 \/ AllZeroWeights(args.entries)))
        => /\ result[1] # TypeError
           /\ AllZeroWeights(args.entries)
                => result[1] = args.entries[Len(args.entries)].result

\* the integer part of the draw rng() * totalWeight of the call in args
DrawOf(seed, entries) ==
    FloorScale(rngNext(seededRandom(ToWord(seed))).k, WeightUpTo(entries, Len(entries)))

\* the entry i with w_1 + ... + w_(i-1) <= r < w_1 + ... + w_i
Bracket(entries, r) ==
    {i \in 1..Len(entries) : WeightUpTo(entries, i - 1) <= r /\ r < WeightUpTo(entries, i)}

\* the draws of 0 .. totalWeight - 1 for which the walk returns entry i
ShareOf(entries, i) ==
    {r \in 0..(WeightUpTo(entries, Len(entries)) - 1) :
        rollWalk(tableOf(entries), 1, r) = entries[i].result}

\* C12: for a non-empty list with positive weights (1 for a plain string or a
\* missing weight), rollFromTable returns the one entry i, in list order, with
\* w_1 + ... + w_(i-1) <= r < w_1 + ... + w_i for the draw r, and entry i is
\* returned for w_i of the totalWeight unit intervals of the draw range.
C12_WeightedSelection ==
    (result # <<>> /\ AllPositiveWeights(args.entries)) =>
        LET entries == args.entries
            r == DrawOf(args.seed, entries)
        IN  /\ 0 <= r /\ r < WeightUpTo(entries, Len(entries))
            /\ Cardinality(Bracket(entries, r)) = 1
            /\ \A i \in Bracket(entries, r) : result[1] = entries[i].result
            /\ \A i \in 1..Len(entries) :
                  Cardinality(ShareOf(entries, i)) = WeightOfEntry(entries[i])

\* A call on the table Snow 3, Blizzard 1, Storm 2 whose draw fell in the
\* last entry's bracket.
C12_Witness ==
    /\ result = <<STORM>>
    /\ args.entries = <<Obj(SNOW, 3), Obj(BLIZZARD, 1), Obj(STORM, 2)>>
    /\ DrawOf(args.seed, args.entries) >= 4

AllPlainStrings(entries) ==
    Len(entries) > 1 /\ \A i \in 1..Len(entries) : entries[i].kind = "string"

\* C13: with a plain array of strings, an item earlier in the array is
\* returned for more of the draw range than an item later in the array.
C13_EarlierMoreLikely ==
    (result # <<>> /\ AllPlainStrings(args.entries)) =>
        \A i, j \in 1..Len(args.entries) :
            i < j => Cardinality(ShareOf(args.entries, i))
                        > Cardinality(ShareOf(args.entries, j))

----------------------------------------------------------------------------
(* formatImpacts on its own.  args is the impact profile; result is         *)
(* [impacts |-> the array returned].                                        *)

\* Profiles with every property, as the catalog's are.
FullProfiles ==
    [roadMult : {50, 100}, offRoadMult : {0, 50, 100},
     canForcedMarch : BOOLEAN, canNightMarch : BOOLEAN,
     zeroVisibility : BOOLEAN, canFordRivers : BOOLEAN,
     type : {"None", "Bad", "Very Bad"},
     special : {"", "Lightning strikes the tallest tent"}]

\* Profiles that lack properties: {} (WEATHER_IMPACTS[condition] || {} for a
\* condition outside the catalog) and objects with a few properties.
PartialProfiles ==
    { EmptyProfile,
      [roadMult |-> 50],
      [offRoadMult |-> 0, type |-> "Bad"],
      [canForcedMarch |-> TRUE, canNightMarch |-> TRUE, canFordRivers |-> TRUE],
      [zeroVisibility |-> TRUE, special |-> "Lightning strikes the tallest tent"],
      [canForcedMarch |-> FALSE, type |-> "Very Bad"] }

CatalogProfiles == {WEATHER_IMPACTS[w] : w \in DOMAIN WEATHER_IMPACTS}

InitImpacts ==
    /\ InitIdle
    /\ args \in FullProfiles \cup PartialProfiles \cup CatalogProfiles
    /\ result = <<>>

FormatImpacts ==
    /\ result = <<>>
    /\ result' = [impacts |-> formatImpacts(args)]
    /\ UNCHANGED <<run, args>>

SpecImpacts == InitImpacts /\ [][FormatImpacts]_vars

\* the place of an impact string in the fixed order
RankOf(item) ==
    CASE item[1] = "Road travel at % speed" -> 1
      [] item[1] \in {"Off-road travel impossible", "Off-road travel at % speed"} -> 2
      [] item[1] = "Forced marching not possible" -> 3
      [] item[1] = "Night marching not possible" -> 4
      [] item[1] = "Zero visibility" -> 5
      [] item[1] = "Cannot ford rivers" -> 6
      [] item[1] = "-1 to battle rolls" -> 7
      [] item[1] \in {"Scouting range reduced by 1 hex",
                      "Scouting range reduced by 2 hexes"} -> 8
      [] OTHER -> 9

\* the texts of the strings of an impacts array
TextsOf(impacts) == {impacts[i][1] : i \in 1..Len(impacts)}

\* C14: the strings come in one fixed order, each place at most once: road
\* speed (only if roadMult < 1), off-road speed or "impossible" (impossible
\* iff offRoadMult is 0), forced march, night march, zero visibility, fording,
\* the two severity strings (1 hex for Bad, 2 hexes for Very Bad), and the
\* special text last.
C14_FixedOrder ==
    result # <<>> =>
        LET out == result.impacts
            T   == TextsOf(out)
        IN  /\ \A i, j \in 1..Len(out) : i < j => RankOf(out[i]) < RankOf(out[j])
            /\ "Road travel at % speed" \in T
                 <=> (Has(args, "roadMult") /\ args.roadMult < 100)
            /\ "Off-road travel impossible" \in T
                 <=> (Has(args, "offRoadMult") /\ args.offRoadMult = 0)
            /\ "Off-road travel at % speed" \in T
                 <=> (Has(args, "offRoadMult") /\ args.offRoadMult > 0
                        /\ args.offRoadMult < 100)
            /\ "Zero visibility" \in T <=> Flag(args, "zeroVisibility")
            /\ "-1 to battle rolls" \in T
                 <=> (Has(args, "type") /\ args.type \in {"Bad", "Very Bad"})
            /\ "Scouting range reduced by 1 hex" \in T
                 <=> (Has(args, "type") /\ args.type = "Bad")
            /\ "Scouting range reduced by 2 hexes" \in T
                 <=> (Has(args, "type") /\ args.type = "Very Bad")
            /\ (Has(args, "special") /\ args.special # "")
                 => (Len(out) > 0 /\ out[Len(out)] = <<args.special>>)

\* A profile that produced all nine places of the order.
C14_Witness ==
    /\ result # <<>>
    /\ Len(result.impacts) = 9
    /\ result.impacts[1][1] = "Road travel at % speed"
    /\ result.impacts[2][1] = "Off-road travel impossible"
    /\ result.impacts[9] = <<"Lightning strikes the tallest tent">>

\* C15: a property the profile lacks produces no string, so the empty
\* profile produces an empty array.
C15_AbsentFieldsEmitNothing ==
    result # <<>> =>
        LET T == TextsOf(result.impacts)
        IN  /\ ~Has(args, "roadMult") => "Road travel at % speed" \notin T
            /\ ~Has(args, "offRoadMult")
                 => /\ "Off-road travel impossible" \notin T
                    /\ "Off-road travel at % speed" \notin T
            /\ ~Has(args, "canForcedMarch") => "Forced marching not possible" \notin T
            /\ ~Has(args, "canNightMarch") => "Night marching not possible" \notin T
            /\ ~Has(args, "zeroVisibility") => "Zero visibility" \notin T
            /\ ~Has(args, "canFordRivers") => "Cannot ford rivers" \notin T
            /\ ~Has(args, "type") => "-1 to battle rolls" \notin T
            /\ args = EmptyProfile => result.impacts = <<>>

----------------------------------------------------------------------------
(* getSeason on its own.  args is the date (its day number); result is      *)
(* <<the season returned>>.                                                 *)

\* The days: 1967-10-24 .. 1972-03-11, with the leap days of 1968 and 1972
\* and the days before 1970, and 2023-12-29 .. 2025-01-12, with the leap day
\* of 2024.
InitSeason ==
    /\ InitIdle
    /\ args \in (-800 .. 800) \cup (19720 .. 20100)
    /\ result = <<>>

GetSeason ==
    /\ result = <<>>
    /\ result' = <<getSeason(args)>>
    /\ UNCHANGED <<run, args>>

SpecSeason == InitSeason /\ [][GetSeason]_vars

\* The season of a month and a day of the month, whatever the year: spring
\* Mar 20 - Jun 20, summer Jun 21 - Sep 21, autumn Sep 22 - Dec 20, winter
\* every other day.
SeasonByCalendar(month, day) ==
    LET md == (month * 100) + day
    IN  IF 320 <= md /\ md <= 620 THEN "spring"
        ELSE IF 621 <= md /\ md <= 921 THEN "summer"
        ELSE IF 922 <= md /\ md <= 1220 THEN "autumn"
        ELSE "winter"

\* C16: getSeason returns, for every date, the season of its UTC month and
\* day alone (spring Mar 20 - Jun 20, summer Jun 21 - Sep 21, autumn Sep 22 -
\* Dec 20, winter otherwise), one of the four seasons.
C16_SeasonByMonthAndDay ==
    result # <<>> =>
        /\ result[1] \in {"spring", "summer", "autumn", "winter"}
        /\ result[1] = SeasonByCalendar(getUTCMonth1(args), getUTCDate(args))

\* March 20 of a year before 1970 resolved to spring.
C16_Witness ==
    /\ result = <<"spring">>
    /\ args < 0
    /\ getUTCMonth1(args) = 3 /\ getUTCDate(args) = 20

----------------------------------------------------------------------------
(* getWeeklyForecast.  args is [today |-> the day number of new Date()];    *)
(* result is [outcome |-> "return", forecast |-> the array returned] or     *)
(* [outcome |-> "throw", error |-> the error of the call that threw].  The  *)
(* daily job then runs on the days of the forecast.                         *)

\* the day number of year-month-1 plus n days, month counted from 1
DaysFromCivil(y, m, n) ==
    LET yy  == IF m <= 2 THEN y - 1 ELSE y
        era == yy \div 400
        yoe == yy - (era * 400)
        mp  == IF m > 2 THEN m - 3 ELSE m + 9
        doy == (((153 * mp) + 2) \div 5) + n
        doe == (yoe * 365) + (yoe \div 4) - (yoe \div 100) + doy
    IN  (era * 146097) + doe - 719468

\* A Date.UTC that takes its month argument as counted from 1.
DateUTCMonthFromOne(year, monthIndex, day) ==
    LET months == ((year * 12) + monthIndex) - 1
    IN  DaysFromCivil(months \div 12, (months % 12) + 1, day - 1)

\* new Date(Date.UTC(year, monthIndex, day)): monthIndex counts from 0, and a
\* day past the end of the month runs over into the months that follow
DateUTC(year, monthIndex, day) ==
    LET months == (year * 12) + monthIndex
    IN  DaysFromCivil(months \div 12, (months % 12) + 1, day - 1)

ForecastLength == 7

\* for (let i = from; i < 7; i++) forecast.push(getWeatherForDate(d, ...)),
\* from the forecast so far; a call that throws ends the loop
RECURSIVE forecastLoop(_, _, _, _, _)
forecastLoop(i, forecast, today, seasonalWeatherConfig, id) ==
    IF i >= ForecastLength THEN [outcome |-> "return", forecast |-> forecast]
    ELSE Then(DateUTC(getUTCFullYear(today), getUTCMonth1(today) - 1,
                      getUTCDate(today) + i),
              LAMBDA d :
         Then(getWeatherForDate(d, seasonalWeatherConfig, id),
              LAMBDA r :
              IF r.outcome = "throw"
              THEN [outcome |-> "throw", error |-> r.error]
              ELSE forecastLoop(i + 1, Append(forecast, r), today,
                                seasonalWeatherConfig, id)))

getWeeklyForecast(today, seasonalWeatherConfig, id) ==
    forecastLoop(0, <<>>, today, seasonalWeatherConfig, id)

\* today is 1969-12-29 (the week crosses day 0), 2024-12-28 (the week
\* crosses the end of the year) or 2026-06-10 (the week holds the comet date)
InitForecast ==
    /\ regionId \in Regions
    /\ date \in {-3, 20085, 20614}
    /\ config \in Configs
    /\ called = FALSE
    /\ history = <<>>
    /\ lookups = <<>>
    /\ args = <<>>
    /\ result = <<>>

GetWeeklyForecast ==
    /\ result = <<>>
    /\ args' = [today |-> date]
    /\ result' = getWeeklyForecast(date, config, regionId)
    /\ UNCHANGED run

\* the daily job on a day of the forecast
ForecastDay ==
    /\ result # <<>>
    /\ GetWeatherForDate

ForecastNextDay ==
    /\ result # <<>>
    /\ DaysCalled < ForecastLength
    /\ NextDay

NextForecast == GetWeeklyForecast \/ ForecastDay \/ ForecastNextDay

SpecForecast == InitForecast /\ [][NextForecast]_vars

\* the forecast has seven entries, for today .. today + 6 in order, and an
\* entry is what the daily call returned for its date
SevenInOrder ==
    /\ result.outcome = "return"
    /\ Len(result.forecast) = 7
    /\ \A i \in 1..7 : result.forecast[i].day = args.today + i - 1
    /\ \A i \in 1..7 : \A n \in Calls :
          history[n].day = args.today + i - 1 => history[n] = result.forecast[i]

----------------------------------------------------------------------------
(* hashRegion on its own.  args is a pair of region identifiers; result is  *)
(* the pair of the values hashRegion returns for them, as words.            *)

HashIds ==
    { RegionDefault, RegionPatlania,
      \* "a"
      <<97>>,
      \* "b"
      <<98>>,
      \* "ab"
      <<97, 98>>,
      \* "ba"
      <<98, 97>>,
      \* "abbukidta"
      <<97, 98, 98, 117, 107, 105, 100, 116, 97>>,
      \* "abbukidtc"
      <<97, 98, 98, 117, 107, 105, 100, 116, 99>>,
      \* "abbukidtb"
      <<97, 98, 98, 117, 107, 105, 100, 116, 98>>,
      \* "defbult"
      <<100, 101, 102, 98, 117, 108, 116>>,
      \* "Default"
      <<68, 101, 102, 97, 117, 108, 116>>,
      \* "patlania Southern Point"
      <<112, 97, 116, 108, 97, 110, 105, 97, 32, 83, 111, 117, 116, 104, 101, 114, 110, 32, 80, 111, 105, 110, 116>>,
      \* "Patlania Southern Poinu"
      <<80, 97, 116, 108, 97, 110, 105, 97, 32, 83, 111, 117, 116, 104, 101, 114, 110, 32, 80, 111, 105, 110, 117>> }

InitHash ==
    /\ InitIdle
    /\ args \in HashIds \X HashIds
    /\ result = <<>>

HashRegion ==
    /\ result = <<>>
    /\ result' = <<hashRegion(args[1]), hashRegion(args[2])>>
    /\ UNCHANGED <<run, args>>

SpecHash == InitHash /\ [][HashRegion]_vars

\* two identifiers of one length that differ in exactly one character
DifferInOneCharacter(a, b) ==
    /\ Len(a) = Len(b)
    /\ Cardinality({i \in 1..Len(a) : a[i] # b[i]}) = 1

\* C18: two identifiers of equal length that differ in exactly one character
\* have different values of hashRegion.
C18_OneCharacterChangesHash ==
    (result # <<>> /\ DifferInOneCharacter(args[1], args[2]))
        => result[1] # result[2]

(***************************************************************************)
(* fetchWebhookConfig: the webhook registry read from the two sheets.      *)
(* A cell is a string, a string is the sequence of its character codes, a  *)
(* row is the sequence of its cells and a sheet is the sequence of its     *)
(* rows, the header row first.                                             *)
(***************************************************************************)
\* null and undefined: the two falsy values a region id or a lookup can be.
\* A region id that is not null is never empty (it holds a space).
null == <<>>

isSpace(c) == c \in {9, 10, 11, 12, 13, 32}

RECURSIVE trimStart(_)
trimStart(s) ==
    IF s # <<>> /\ isSpace(Head(s)) THEN trimStart(Tail(s)) ELSE s

RECURSIVE trimEnd(_)
trimEnd(s) ==
    IF s # <<>> /\ isSpace(s[Len(s)])
    THEN trimEnd(SubSeq(s, 1, Len(s) - 1)) ELSE s

trim(s) == trimEnd(trimStart(s))

toLowerCase(s) ==
    [i \in 1 .. Len(s) |-> IF s[i] \in 65 .. 90 THEN s[i] + 32 ELSE s[i]]

toUpperCase(s) ==
    [i \in 1 .. Len(s) |-> IF s[i] \in 97 .. 122 THEN s[i] - 32 ELSE s[i]]

\* row[index] || "": a cell the row does not have reads as the empty string.
Cell(row, index) ==
    IF index >= 0 /\ index < Len(row) THEN row[index + 1] ELSE <<>>

RECURSIVE findColumnFrom(_, _, _)
findColumnFrom(headerRow, normalizedName, i) ==
    IF i >= Len(headerRow) THEN -1
    ELSE IF toLowerCase(trim(Cell(headerRow, i))) = normalizedName THEN i
    ELSE findColumnFrom(headerRow, normalizedName, i + 1)

findColumnIndex(headerRow, headerName) ==
    findColumnFrom(headerRow, trim(toLowerCase(headerName)), 0)

buildRegionId(continent, region) ==
    LET c == trim(continent)
        r == trim(region)
    IN  IF c = <<>> \/ r = <<>> THEN null ELSE c \o <<32>> \o r

\* The header of each column.
HeaderOf ==
    [
     \* "Name"
     name |-> <<78, 97, 109, 101>>,
     \* "Weather Webhook"
     weatherWebhook |-> <<87, 101, 97, 116, 104, 101, 114, 32, 87, 101, 98,
       104, 111, 111, 107>>,
     \* "Current Continent"
     continent |-> <<67, 117, 114, 114, 101, 110, 116, 32, 67, 111, 110,
       116, 105, 110, 101, 110, 116>>,
     \* "Region"
     region |-> <<82, 101, 103, 105, 111, 110>>,
     \* "Is Leader"
     isLeader |-> <<73, 115, 32, 76, 101, 97, 100, 101, 114>>,
     \* "Recipient Override"
     recipientOverride |-> <<82, 101, 99, 105, 112, 105, 101, 110, 116, 32,
       79, 118, 101, 114, 114, 105, 100, 101>>
    ]

\* "TRUE"
TextTRUE == <<84, 82, 85, 69>>

\* "__proto__"
KeyProto == <<95, 95, 112, 114, 111, 116, 111, 95, 95>>

\* The property names every object inherits that a lower-cased name can
\* spell, each with the text its inherited value has when used as a property
\* key: "constructor" with "function Object() { [native code] }" and
\* "__proto__" with "[object Object]".
InheritedProperties ==
       <<99, 111, 110, 115, 116, 114, 117, 99, 116, 111, 114>>
         :> <<102, 117, 110, 99, 116, 105, 111, 110, 32, 79, 98, 106, 101,
            99, 116, 40, 41, 32, 123, 32, 91, 110, 97, 116, 105, 118, 101,
            32, 99, 111, 100, 101, 93, 32, 125>>
    @@ KeyProto :> <<91, 111, 98, 106, 101, 99, 116, 32, 79, 98, 106, 101, 99, 116, 93>>

\* object[key] = value: an object literal ignores a string assigned to
\* __proto__.
setProperty(object, key, value) ==
    IF key = KeyProto THEN object
    ELSE [k \in DOMAIN object \cup {key} |->
            IF k = key THEN value ELSE object[k]]

\* object[key]: an own property, else an inherited one, else undefined.
getProperty(object, key) ==
    IF key \in DOMAIN object THEN object[key]
    ELSE IF key \in DOMAIN InheritedProperties THEN InheritedProperties[key]
    ELSE null

\* if (!webhooksByRegion[regionId]) webhooksByRegion[regionId] = [];
\* webhooksByRegion[regionId].push(webhookUrl)
pushWebhook(webhooksByRegion, id, webhookUrl) ==
    [k \in DOMAIN webhooksByRegion \cup {id} |->
        IF k = id
        THEN (IF id \in DOMAIN webhooksByRegion
              THEN webhooksByRegion[id] ELSE <<>>) \o <<webhookUrl>>
        ELSE webhooksByRegion[k]]

SheetError(message, columns) ==
    [outcome |-> "throw", error |-> message, columns |-> columns]

cmdColsOf(cmdHeader) ==
    [name |-> findColumnIndex(cmdHeader, HeaderOf.name),
     weatherWebhook |-> findColumnIndex(cmdHeader, HeaderOf.weatherWebhook),
     continent |-> findColumnIndex(cmdHeader, HeaderOf.continent),
     region |-> findColumnIndex(cmdHeader, HeaderOf.region)]

dipColsOf(dipHeader) ==
    [name |-> findColumnIndex(dipHeader, HeaderOf.name),
     weatherWebhook |-> findColumnIndex(dipHeader, HeaderOf.weatherWebhook),
     continent |-> findColumnIndex(dipHeader, HeaderOf.continent),
     region |-> findColumnIndex(dipHeader, HeaderOf.region),
     isLeader |-> findColumnIndex(dipHeader, HeaderOf.isLeader),
     recipientOverride |-> findColumnIndex(dipHeader, HeaderOf.recipientOverride)]

missingCols(cols) ==
    {c \in {"name", "weatherWebhook", "continent", "region"} : cols[c] = -1}

RECURSIVE commanderLoop(_, _, _, _)
commanderLoop(cmdData, cmdCols, i, acc) ==
    IF i > Len(cmdData) THEN acc
    ELSE
      LET row == cmdData[i]
          name == trim(Cell(row, cmdCols.name))
          webhookUrl == trim(Cell(row, cmdCols.weatherWebhook))
          continent == trim(Cell(row, cmdCols.continent))
          region == trim(Cell(row, cmdCols.region))
          rid == buildRegionId(continent, region)
          map == IF name # <<>> /\ rid # null
                 THEN setProperty(acc.commanderRegionMap,
                                  toLowerCase(name), rid)
                 ELSE acc.commanderRegionMap
          hooks == IF webhookUrl = <<>> \/ rid = null
                   THEN acc.webhooksByRegion
                   ELSE pushWebhook(acc.webhooksByRegion, rid,
                                    webhookUrl)
      IN  commanderLoop(cmdData, cmdCols, i + 1,
                        [acc EXCEPT !.commanderRegionMap = map,
                                    !.webhooksByRegion = hooks])

\* The region a diplomat's webhook goes under: the overriding commander's
\* when the override is found, the diplomat's own otherwise.
diplomatRegionOwnOnly(commanderRegionMap, recipientOverride, continent, region) ==
    buildRegionId(continent, region)

diplomatRegionId(commanderRegionMap, recipientOverride, continent, region) ==
    IF recipientOverride # <<>>
    THEN LET overrideKey == toLowerCase(recipientOverride)
             found == getProperty(commanderRegionMap, overrideKey)
         IN  IF found # null THEN found
             ELSE buildRegionId(continent, region)
    ELSE buildRegionId(continent, region)

isLeaderOf(row, dipCols) ==
    IF dipCols.isLeader # -1
    THEN toUpperCase(Cell(row, dipCols.isLeader)) = TextTRUE
    ELSE FALSE

recipientOverrideOf(row, dipCols) ==
    IF dipCols.recipientOverride # -1
    THEN trim(Cell(row, dipCols.recipientOverride))
    ELSE <<>>

RECURSIVE diplomatLoop(_, _, _, _)
diplomatLoop(dipData, dipCols, i, acc) ==
    IF i > Len(dipData) THEN acc
    ELSE
      LET row == dipData[i]
          webhookUrl == trim(Cell(row, dipCols.weatherWebhook))
          continent == trim(Cell(row, dipCols.continent))
          region == trim(Cell(row, dipCols.region))
          isLeader == isLeaderOf(row, dipCols)
          recipientOverride == recipientOverrideOf(row, dipCols)
          rid == diplomatRegionId(acc.commanderRegionMap,
                                       recipientOverride, continent, region)
          next ==
            IF isLeader /\ webhookUrl # <<>>
            THEN [acc EXCEPT !.weeklyForecastUrl = <<webhookUrl>>]
            ELSE IF webhookUrl = <<>> THEN acc
            ELSE IF rid = null THEN acc
            ELSE [acc EXCEPT !.webhooksByRegion =
                     pushWebhook(acc.webhooksByRegion, rid, webhookUrl)]
      IN  diplomatLoop(dipData, dipCols, i + 1, next)

\* weeklyForecastUrl is <<>> for null and <<url>> once a leader row set it.
fetchWebhookConfig(commanderRows, diplomatRows) ==
    IF Len(commanderRows) < 2
    THEN SheetError("Commander Database sheet is empty or has no data rows",
                    {})
    ELSE IF missingCols(cmdColsOf(Head(commanderRows))) # {}
    THEN SheetError("Commander Database missing required columns",
                    missingCols(cmdColsOf(Head(commanderRows))))
    ELSE
      LET commanders ==
            commanderLoop(Tail(commanderRows), cmdColsOf(Head(commanderRows)),
                          1, [commanderRegionMap |-> <<>>,
                              webhooksByRegion |-> <<>>,
                              weeklyForecastUrl |-> <<>>])
      IN  IF Len(diplomatRows) < 2
          THEN SheetError(
                 "Diplomat Database sheet is empty or has no data rows", {})
          ELSE IF missingCols(dipColsOf(Head(diplomatRows))) # {}
          THEN SheetError("Diplomat Database missing required columns",
                          missingCols(dipColsOf(Head(diplomatRows))))
          ELSE
            LET all == diplomatLoop(Tail(diplomatRows),
                                    dipColsOf(Head(diplomatRows)), 1,
                                    commanders)
            IN  [outcome |-> "return",
                 webhooksByRegion |-> all.webhooksByRegion,
                 weeklyForecastUrl |-> all.weeklyForecastUrl]

\* A header as typed by hand: upper case, with a space before and after.
Shouted(s) == <<32>> \o toUpperCase(s) \o <<32>>

RowOf(layout, record) == [i \in 1 .. Len(layout) |-> record[layout[i]]]

HeaderRowOf(layout) ==
    [i \in 1 .. Len(layout) |->
        IF i = 1 THEN Shouted(HeaderOf[layout[i]]) ELSE HeaderOf[layout[i]]]

CommanderRecords ==
    {[name |-> <<65, 108, 105, 99, 101>>, weatherWebhook |-> <<104, 116, 116, 112, 115, 58, 47, 47, 99, 47, 49>>,
      continent |-> <<69, 97, 115, 116>>, region |-> <<66, 97, 121>>],
     [name |-> <<32, 65, 76, 73, 67, 69>>, weatherWebhook |-> <<>>,
      continent |-> <<32, 87, 101, 115, 116>>, region |-> <<80, 97, 115, 115, 32>>],
     [name |-> <<66, 111, 98>>, weatherWebhook |-> <<104, 116, 116, 112, 115, 58, 47, 47, 99, 47, 51>>,
      continent |-> <<87, 101, 115, 116>>, region |-> <<>>]}
DiplomatRecords ==
    {[name |-> <<68, 97, 110>>, weatherWebhook |-> <<104, 116, 116, 112, 115, 58, 47, 47, 100, 47, 49>>,
      continent |-> <<87, 101, 115, 116>>, region |-> <<80, 97, 115, 115>>,
      isLeader |-> <<>>, recipientOverride |-> <<32, 97, 108, 105, 99, 101, 32>>],
     [name |-> <<68, 97, 110>>, weatherWebhook |-> <<104, 116, 116, 112, 115, 58, 47, 47, 100, 47, 50>>,
      continent |-> <<69, 97, 115, 116>>, region |-> <<66, 97, 121>>,
      isLeader |-> <<70, 65, 76, 83, 69>>, recipientOverride |-> <<66, 111, 98>>],
     [name |-> <<69, 118, 101>>, weatherWebhook |-> <<104, 116, 116, 112, 115, 58, 47, 47, 100, 47, 51>>,
      continent |-> <<69, 97, 115, 116>>, region |-> <<66, 97, 121>>,
      isLeader |-> <<116, 114, 117, 101>>, recipientOverride |-> <<65, 108, 105, 99, 101>>],
     [name |-> <<68, 97, 110>>, weatherWebhook |-> <<104, 116, 116, 112, 115, 58, 47, 47, 100, 47, 53>>,
      continent |-> <<>>, region |-> <<>>,
      isLeader |-> <<>>, recipientOverride |-> <<67, 97, 114, 111, 108>>],
     [name |-> <<68, 97, 110>>, weatherWebhook |-> <<104, 116, 116, 112, 115, 58, 47, 47, 100, 47, 55>>,
      continent |-> <<87, 101, 115, 116>>, region |-> <<80, 97, 115, 115>>,
      isLeader |-> <<32, 84, 82, 85, 69>>, recipientOverride |-> <<99, 111, 110, 115, 116, 114, 117, 99, 116, 111, 114>>]}

MaxRows == 2

SheetsOf(layouts, records) ==
    {<<>>} \cup
    {<<HeaderRowOf(l)>> \o [i \in 1 .. Len(rs) |-> RowOf(l, rs[i])] :
        l \in layouts,
        rs \in UNION {[1 .. n -> records] : n \in 0 .. MaxRows}}

\* The sheets of the runs.  A layout names the columns a sheet has, in
\* order; the second commander layout lacks the Region column, the second
\* diplomat layout the two optional columns, and the last diplomat sheet
\* the Region column.
InitSheets ==
    /\ InitIdle
    /\ args \in
         [commanderRows :
            SheetsOf({<<"region", "continent", "name", "weatherWebhook">>,
                      <<"name", "weatherWebhook", "continent">>},
                     CommanderRecords),
          diplomatRows :
            SheetsOf({<<"name", "weatherWebhook", "continent", "region",
                        "isLeader", "recipientOverride">>,
                      <<"region", "continent", "weatherWebhook", "name">>},
                     DiplomatRecords)
            \cup {<<HeaderRowOf(<<"name", "weatherWebhook", "continent">>),
                    <<HeaderOf.name, HeaderOf.weatherWebhook,
                      HeaderOf.region>>>>}]
    /\ result = <<>>

FetchWebhookConfig ==
    /\ result = <<>>
    /\ result' = <<fetchWebhookConfig(args.commanderRows,
                                     args.diplomatRows)>>
    /\ UNCHANGED <<run, args>>

SpecSheets == InitSheets /\ [][FetchWebhookConfig]_vars

\* The run's sheets as the claim reads them: the data rows and their cells.
Fetched == result # <<>> /\ result[1].outcome = "return"

CommanderData == Tail(args.commanderRows)

DiplomatData == Tail(args.diplomatRows)

CommanderCell(j, column) ==
    trim(Cell(CommanderData[j], cmdColsOf(Head(args.commanderRows))[column]))

DiplomatCell(i, column) ==
    trim(Cell(DiplomatData[i], dipColsOf(Head(args.diplomatRows))[column]))

WebhookOf(i) == DiplomatCell(i, "weatherWebhook")

OwnRegion(i) ==
    buildRegionId(DiplomatCell(i, "continent"), DiplomatCell(i, "region"))

OverrideKey(i) ==
    toLowerCase(recipientOverrideOf(DiplomatData[i],
                                    dipColsOf(Head(args.diplomatRows))))

\* The diplomat rows the override rule is about: a webhook, not the leader,
\* a Recipient Override that is not empty.
OverridingRows ==
    {i \in 1 .. Len(DiplomatData) :
        /\ WebhookOf(i) # <<>>
        /\ ~isLeaderOf(DiplomatData[i], dipColsOf(Head(args.diplomatRows)))
        /\ OverrideKey(i) # <<>>}

CommanderRegion(j) ==
    buildRegionId(CommanderCell(j, "continent"), CommanderCell(j, "region"))

CommandersNamed(key) ==
    {j \in 1 .. Len(CommanderData) :
        toLowerCase(CommanderCell(j, "name")) = key}

LocatedCommandersNamed(key) ==
    {j \in CommandersNamed(key) : CommanderRegion(j) # null}

LastOf(rows) == CHOOSE j \in rows : \A k \in rows : k <= j

RegisteredUnder(url, id) ==
    /\ id \in DOMAIN result[1].webhooksByRegion
    /\ \E n \in 1 .. Len(result[1].webhooksByRegion[id]) :
          result[1].webhooksByRegion[id][n] = url

RegisteredOnlyUnder(url, id) ==
    /\ RegisteredUnder(url, id)
    /\ \A other \in DOMAIN result[1].webhooksByRegion :
          RegisteredUnder(url, other) => other = id

RegisteredNowhere(url) ==
    \A id \in DOMAIN result[1].webhooksByRegion : ~RegisteredUnder(url, id)

ToInt32(seed) == ToWord(seed[2])

MaxDraws == 6

\* The generator just built: no call made yet.
InitRng ==
    /\ InitIdle
    /\ args \in [seed : {-1, 0, 1, 2097151}
                           \X {0, 1, 12345, 20260615, 2147483647, -1,
                               -12345, (-2147483647) - 1}]
    /\ result = [a |-> seededRandom(ToInt32(args.seed)), n |-> 0,
                 draws |-> <<>>]

\* One call of the closure; draws keeps the words k returned so far.
Rng ==
    /\ result.n < MaxDraws
    /\ result' = [a |-> rngNext(result.a).a, n |-> result.n + 1,
                  draws |-> Append(result.draws, rngNext(result.a).k)]
    /\ UNCHANGED <<run, args>>

SpecRng == InitRng /\ [][Rng]_vars

IsWord(w) == w[1] \in 0 .. (H - 1) /\ w[2] \in 0 .. (H - 1)

\* The n-th word as a function of the seed's residue and n alone.
RECURSIVE StateAfter(_, _)
StateAfter(word, n) ==
    IF n = 0 THEN seededRandom(word)
    ELSE rngNext(StateAfter(word, n - 1)).a

DrawAt(word, n) == rngNext(StateAfter(word, n - 1)).k

\* The first draws for three residues, computed from the JavaScript
\* arithmetic outside the model.
KnownDraws ==
       0 :> << <<13058, 26406>>, <<12675, 60822>>, <<5172, 16676>>,
               <<63100, 9502>>, <<51936, 6926>>, <<10086, 5956>> >>
    @@ 12345 :> << <<182, 51934>>, <<63115, 16117>>, <<60773, 51100>>,
                   <<3295, 63135>>, <<63011, 19821>>, <<715, 2770>> >>
    @@ (-1) :> << <<43093, 13531>>, <<42045, 61104>>, <<37161, 50702>>,
                  <<50244, 33185>>, <<49560, 491>>, <<62672, 28545>> >>

\* seed mod 2^32 as a word, from the seed's value: n when n >= 0 and
\* n + 2^32 when n < 0.
ResidueWord(seed) ==
    IF seed[2] >= 0 THEN <<seed[2] \div H, seed[2] % H>>
    ELSE <<32768 + ((seed[2] + 2147483647 + 1) \div H),
           (seed[2] + 2147483647 + 1) % H>>

\* C20: for every integer seed the n-th call returns k / 2^32 for a word k,
\* 0 <= k <= 2^32 - 1, so the value is in [0, 1); k is the n-th word of the
\* seed's residue mod 2^32, whatever multiple of 2^32 the seed holds, and
\* the words are those 32-bit wraparound arithmetic gives.
C20_WordsOfResidue ==
    /\ IsWord(result.a)
    /\ Len(result.draws) = result.n
    /\ \A i \in 1 .. result.n :
         /\ IsWord(result.draws[i])
         /\ result.draws[i] = DrawAt(ResidueWord(args.seed), i)
         /\ (/\ args.seed[2] \in DOMAIN KnownDraws
             /\ i \in DOMAIN KnownDraws[args.seed[2]])
               => result.draws[i] = KnownDraws[args.seed[2]][i]

\* Three calls made on a seed beyond 32 bits whose residue has the top bit
\* set.
C20_Witness ==
    /\ result.n >= 3
    /\ args.seed[1] # 0
    /\ args.seed[2] = -1
    /\ result.draws[3] = <<37161, 50702>>

(***************************************************************************)
(* The two loops of a call of getWeatherForDate, one iteration at a time:  *)
(* the while loop of getEpochInfo, then the for loop of                    *)
(* getEffectiveEpochEndWeather(epochNumber - 1, ...).  args is the call's  *)
(* day and region; the configuration is ConfigNine.  result.scan holds the *)
(* scan's loop variables, result.from the epoch and day the scan started   *)
(* at, result.walk the walk's loop variable e, its effectiveWeather and    *)
(* draws (st) and the iterations made.                                     *)
(***************************************************************************)
\* The loop variables when the while loop is entered: the for loop has
\* summed the lengths of the epochs before startEpochNum.  The days: every
\* day of the first weeks, when the estimate is cut off at epoch 0, days
\* before 1970, and days far from day 0, before and after the anchor epoch.
InitScan ==
    /\ InitIdle
    /\ args \in [day : (-3 .. 70) \cup {-276, 4999, 20077, 20620},
                 id : Regions]
    /\ result =
         [scan |->
            [outcome |-> "scanning",
             epochNumber |-> startEpochNumOf(args.day),
             epochLength |-> 0, dayInEpoch |-> 0,
             epochStart |-> sumEpochLengths(0, startEpochNumOf(args.day),
                                            regionOffsetOf(args.id)),
             epochEnd |-> 0, draws |-> startEpochNumOf(args.day)],
          from |->
            [epochNumber |-> startEpochNumOf(args.day),
             epochStart |-> sumEpochLengths(0, startEpochNumOf(args.day),
                                            regionOffsetOf(args.id))],
          walk |->
            [e |-> ANCHOR_EPOCH, iterations |-> 0,
             st |-> [effectiveWeather |-> ANCHOR_WEATHER, draws |-> 0]]]

ScanIteration ==
    /\ result.scan.outcome = "scanning"
    /\ result' = [result EXCEPT
                    !.scan = scanBody(result.scan, args.day,
                                      regionOffsetOf(args.id))]
    /\ UNCHANGED <<run, args>>

\* for (let e = ANCHOR_EPOCH; e <= epochNumber; e++), called with the epoch
\* before the one the scan returned
WalkIteration ==
    /\ result.scan.outcome = "return"
    /\ result.walk.e <= result.scan.epochNumber - 1
    /\ result' = [result EXCEPT
                    !.walk = [e |-> result.walk.e + 1,
                              iterations |-> result.walk.iterations + 1,
                              st |-> walkBody(result.walk.e, result.walk.st,
                                              config[getSeason(args.day)],
                                              args.id,
                                              regionOffsetOf(args.id))]]
    /\ UNCHANGED <<run, args>>

SpecScan == InitScan /\ [][ScanIteration \/ WalkIteration]_vars

\* C21: for a target day >= 0 epochStart never exceeds the target day, from
\* the first day of the epoch the scan starts at (the value the loop is
\* entered with) through every iteration, and the scan ends by returning,
\* never by throwing the Epoch calculation error; what it returns is what
\* getEpochInfo returns.
C21_ScanNeverOvershoots ==
    args.day >= 0 =>
        /\ result.scan.outcome # "throw"
        /\ result.scan.epochStart <= args.day
        /\ result.scan.outcome = "return"
              => result.scan = getEpochInfo(args.day, args.id)

\* A scan of more than a thousand iterations that has returned the epoch of
\* a day >= 0.
C21_Witness ==
    /\ args.day >= 0
    /\ result.scan.outcome = "return"
    /\ result.scan.epochNumber - result.from.epochNumber > 1000

\* Both loops are over: the scan threw, or it returned and the walk's loop
\* condition e <= epochNumber - 1 is false.
Terminated ==
    \/ result.scan.outcome = "throw"
    \/ /\ result.scan.outcome = "return"
       /\ result.walk.e > result.scan.epochNumber - 1

\* C24: the scan advances epochStart by at least 2 days per iteration and
\* goes on only while epochStart is not after the target day, so it ends
\* within (targetDay - first epochStart) / 2 + 1 iterations, by returning or
\* throwing; the walk for epoch n = epochNumber - 1 makes one iteration per
\* epoch from ANCHOR_EPOCH and ends after exactly max(0, n - ANCHOR_EPOCH + 1)
\* of them with the weather getEffectiveEpochEndWeather returns.
C24_LoopsTerminate ==
    /\ result.scan.epochStart >=
          result.from.epochStart
            + 2 * (result.scan.epochNumber - result.from.epochNumber)
    /\ result.scan.outcome = "scanning"
          => \/ result.scan.epochStart <= args.day
             \/ result.scan.epochNumber = result.from.epochNumber
    /\ result.walk.iterations = result.walk.e - ANCHOR_EPOCH
    /\ result.walk.iterations
          <= Max(0, (result.scan.epochNumber - 1) - ANCHOR_EPOCH + 1)
             \/ result.scan.outcome # "return"
    /\ (Terminated /\ result.scan.outcome = "return") =>
          /\ result.walk.iterations =
                Max(0, (result.scan.epochNumber - 1) - ANCHOR_EPOCH + 1)
          /\ result.walk.st =
                getEffectiveEpochEndWeather(result.scan.epochNumber - 1,
                                            config[getSeason(args.day)],
                                            args.id)

\* Both ways of ending are seen: a walk of more than a hundred iterations
\* has ended after a scan of more than a thousand.
C24_Witness ==
    /\ Terminated
    /\ result.scan.outcome = "return"
    /\ result.scan.epochNumber - result.from.epochNumber > 1000
    /\ result.walk.iterations > 100

(***************************************************************************)
(* Properties of getWeatherForDate stated on history, under Spec.          *)
(***************************************************************************)
\* Call i needs no path: the previous effective weather is the epoch's base
\* weather, or TRANSITION_PATHS has no entry for the pair.
DirectJump(i) ==
    \/ history[i].prevEffectiveWeather = history[i].currentEpochWeather
    \/ PathsFor(history[i].prevEffectiveWeather,
                history[i].currentEpochWeather) = <<>>

\* C22: a call for a non-comet date whose pair (prevEffectiveWeather, base)
\* is a direct jump selects no path, does not draw from the path generator
\* and returns the base weather, whatever its dayInEpoch.
C22_DirectJumps ==
    \A i \in Calls :
        (Resolved(i) /\ DirectJump(i)) =>
            /\ history[i].path = <<>>
            /\ history[i].pathDrew = 0
            /\ history[i].condition = history[i].currentEpochWeather

\* Direct jumps of both kinds, seen on a day that is not its epoch's first:
\* base equal to the previous weather, and a pair of different conditions
\* without an entry.
C22_Witness ==
    /\ \E i \in Calls :
         /\ Resolved(i) /\ history[i].dayInEpoch > 0
         /\ history[i].prevEffectiveWeather = history[i].currentEpochWeather
    /\ \E i \in Calls :
         /\ Resolved(i) /\ history[i].dayInEpoch > 0
         /\ history[i].prevEffectiveWeather # history[i].currentEpochWeather
         /\ DirectJump(i)

\* Calls i and j resolved two consecutive non-comet days of one season, both
\* in epochs after the anchor epoch.
ConsecutiveDays(i, j) ==
    /\ Resolved(i) /\ Resolved(j)
    /\ history[j].day = history[i].day + 1
    /\ history[j].season = history[i].season
    /\ history[i].epochNumber > ANCHOR_EPOCH

\* TRANSITION_PATHS says that going from c1 to c2 needs intermediate steps.
NeedsSteps(c1, c2) == c1 # c2 /\ PathsFor(c1, c2) # <<>>

\* C25: on two consecutive non-comet days of one season, in epochs after
\* the anchor epoch, the conditions shown are never a pair that
\* TRANSITION_PATHS registers a path for.
C25_DayToDaySmoothing ==
    \A i, j \in Calls :
        ConsecutiveDays(i, j)
           => ~NeedsSteps(history[i].condition, history[j].condition)

\* Configurations that agree with c on the entry of season s, present or
\* absent, and differ from it elsewhere: s alone; every other season with a
\* table that c does not have there.
Differently(c, s) ==
    LET other(x) == IF HasSeason(c, x) /\ c[x] = NineConditions
                    THEN ConfigSeasons[x] ELSE NineConditions
    IN  { [x \in {s} \cap DOMAIN c |-> c[x]],
          [x \in (DOMAIN ConfigNine \ {s}) \cup ({s} \cap DOMAIN c) |->
              IF x = s THEN c[x] ELSE other(x)] }

\* C26: the result of a call depends on the configuration only through the
\* entry of the date's season: the call just made returns (or throws) the
\* same under every configuration that agrees with the run's on that entry,
\* and its previous effective weather is the walk over the earlier epochs,
\* those lying in other seasons included, rolled from that entry.
C26_OwnSeasonEntryOnly ==
    (called /\ Len(history) > 0) =>
        /\ \A c \in Differently(config, Last(history).season) :
              getWeatherForDate(Last(history).day, c, regionId) = Last(history)
        /\ Resolved(Len(history)) =>
              Last(history).prevEffectiveWeather =
                 getEffectiveEpochEndWeather(
                     Last(history).epochNumber - 1,
                     config[Last(history).season], regionId).effectiveWeather

\* A call for a date in an epoch after the anchor whose previous epoch ended
\* in another season, for which the run's configuration has another table.
C26_Witness ==
    /\ called /\ Len(history) > 0
    /\ Resolved(Len(history))
    /\ Last(history).epochNumber > ANCHOR_EPOCH + 1
    /\ LET earlier == getSeason(Last(history).day - Last(history).dayInEpoch - 1)
       IN  /\ earlier # Last(history).season
           /\ HasSeason(config, earlier)
           /\ config[earlier] # config[Last(history).season]

\* Call i resolved a date of the anchor epoch or of an epoch before it.
AtOrBeforeAnchor(i) == Resolved(i) /\ history[i].epochNumber <= ANCHOR_EPOCH

\* The path the epoch of call i begins with when the weather before it is
\* Clear Skies.
PathFromAnchorWeather(i) ==
    selectTransitionPath(
        seededRandom(ToWord((history[i].epochNumber * 54321)
                            + regionOffsetOf(regionId))),
        ANCHOR_WEATHER, history[i].currentEpochWeather)

\* C27: for a date in an epoch numbered ANCHOR_EPOCH or less the walk makes
\* no iteration (the call draws from the generators of the epoch lookup, of
\* the base roll and of the path selection only), prevEffectiveWeather is
\* Clear Skies, and the condition is the one that the transition from Clear
\* Skies to the epoch's own base weather gives for the day.
C27_AnchorBaseCase ==
    \A i \in Calls :
        AtOrBeforeAnchor(i) =>
            /\ history[i].prevEffectiveWeather = CLEAR_SKIES
            /\ history[i].path = PathFromAnchorWeather(i).path
            /\ history[i].condition =
                  resolveCondition(PathFromAnchorWeather(i).path,
                                   history[i].dayInEpoch,
                                   history[i].currentEpochWeather)
            /\ (called /\ i = Len(history)) =>
                  history[i].draws =
                     getEpochInfo(history[i].day, regionId).draws + 1
                       + history[i].pathDrew

\* A date of the anchor epoch itself and a date of an earlier epoch that
\* begins with a path from Clear Skies were resolved, the second one just
\* now.
C27_Witness ==
    /\ called
    /\ \E i \in Calls : Resolved(i) /\ history[i].epochNumber = ANCHOR_EPOCH
    /\ Len(history) > 0
    /\ AtOrBeforeAnchor(Len(history))
    /\ Last(history).path # <<>>

\* The conditions a season entry names.
ConfiguredFor(seasonConfig) ==
    {seasonConfig.conditions[k].result : k \in 1..Len(seasonConfig.conditions)}

\* The intermediate conditions of the paths that TRANSITION_PATHS registers
\* for the pair.
Intermediates(fromWeather, toWeather) ==
    IF fromWeather \in DOMAIN TRANSITION_PATHS
       /\ toWeather \in DOMAIN TRANSITION_PATHS[fromWeather]
    THEN UNION { {p[k] : k \in 1..Len(p)} :
                 p \in {TRANSITION_PATHS[fromWeather][toWeather][n] :
                        n \in 1..Len(TRANSITION_PATHS[fromWeather][toWeather])} }
    ELSE {}

\* Every season entry of the configuration names catalog conditions only.
NamesOnlyCatalog(c) ==
    \A s \in DOMAIN c : ConfiguredFor(c[s]) \subseteq ALL_WEATHER_TYPES

\* C30: the condition returned for a non-comet date is one configured for
\* the date's season or an intermediate condition of a path registered for
\* (prevEffectiveWeather, base); when the configuration names only the nine
\* catalog conditions it is one of the nine, WEATHER_IMPACTS has an entry for
\* it, and impacts is formatImpacts of that entry.
C30_ConditionWithinCatalog ==
    \A i \in Calls :
        Resolved(i) =>
            /\ \/ history[i].condition \in ConfiguredFor(config[history[i].season])
               \/ history[i].condition
                     \in Intermediates(history[i].prevEffectiveWeather,
                                       history[i].currentEpochWeather)
            /\ NamesOnlyCatalog(config) =>
                  /\ history[i].condition \in ALL_WEATHER_TYPES
                  /\ history[i].condition \in DOMAIN WEATHER_IMPACTS
                  /\ history[i].impactData = WEATHER_IMPACTS[history[i].condition]
                  /\ history[i].impacts =
                        formatImpacts(WEATHER_IMPACTS[history[i].condition])

\* A run that returned a condition its season does not configure, a step of
\* a path, with a non-empty list of impacts, and a configured condition.
C30_Witness ==
    /\ \E i \in Calls :
          /\ Resolved(i)
          /\ history[i].condition \notin ConfiguredFor(config[history[i].season])
          /\ history[i].impacts # <<>>
    /\ \E i \in Calls :
          /\ Resolved(i)
          /\ history[i].condition \in ConfiguredFor(config[history[i].season])
          /\ history[i].path # <<>>

(***************************************************************************)
(* Properties of getEpochInfo stated on lookups, under SpecEpoch.          *)
(***************************************************************************)
\* What the lookup for the day after a day of epoch a returns: the next day
\* of the same epoch, or day 0 of the next epoch when a's days are over.
NextDayOf(a, b) ==
    IF a.dayInEpoch + 1 < a.epochLength
    THEN /\ b.epochNumber = a.epochNumber
         /\ b.dayInEpoch = a.dayInEpoch + 1
         /\ b.epochLength = a.epochLength
    ELSE /\ b.epochNumber = a.epochNumber + 1
         /\ b.dayInEpoch = 0
         /\ b.epochLength = rollEpochLength(b.epochNumber, regionOffsetOf(regionId))

\* C28: from day 0 on, the lookups of two consecutive days agree, each one
\* scanning from its own start estimate: the second returns the next day of
\* the first one's epoch, or day 0 of the next epoch; dayInEpoch is always
\* within 0..epochLength - 1.
C28_ConsecutiveLookupsAgree ==
    /\ \A i \in 1..Len(lookups) :
          lookups[i].day >= 0 =>
             /\ lookups[i].info.outcome = "return"
             /\ lookups[i].info.dayInEpoch \in 0..(lookups[i].info.epochLength - 1)
    /\ \A i \in 1..(Len(lookups) - 1) :
          (lookups[i].day >= 0 /\ lookups[i + 1].day = lookups[i].day + 1)
             => NextDayOf(lookups[i].info, lookups[i + 1].info)

\* Two consecutive days whose scans started at different epochs were looked
\* up, the second one being day 0 of the next epoch.
C28_Witness ==
    \E i \in 1..(Len(lookups) - 1) :
        /\ lookups[i].day >= 0
        /\ lookups[i + 1].day = lookups[i].day + 1
        /\ startEpochNumOf(lookups[i].day) < startEpochNumOf(lookups[i + 1].day)
        /\ lookups[i + 1].info.epochNumber = lookups[i].info.epochNumber + 1
        /\ lookups[i + 1].info.dayInEpoch = 0

(***************************************************************************)
(* loadWebhookConfig under concurrent callers.  args is the process's      *)
(* environment: whether the two Google Sheets variables are set and        *)
(* whether a fetch resolves or rejects.  result is the module's state:     *)
(* webhookConfig (0 for null, n for the object the n-th fetch resolved     *)
(* with), webhookConfigPromise (0 for null, else an index into promises),  *)
(* promises (each pending, fulfilled or rejected, with the number of the   *)
(* fetch it awaits), fetches (the calls of fetchWebhookConfig made) and,   *)
(* for each caller, where its call of loadWebhookConfig stands: "idle"     *)
(* (not called yet), "line127" (awaiting the promise it created),          *)
(* "line102" (it returned the in-progress promise), "resolved" or          *)
(* "rejected" with value the object or the error (n: the n-th fetch's      *)
(* error; 0: the not-configured error); found is what the call met:        *)
(* "cached" (webhookConfig set), the state of the promise in progress,     *)
(* "none" (it started the fetch) or "unconfigured".  One step is one run   *)
(* of code between two awaits.                                             *)
(***************************************************************************)
\* A call that does not look for a fetch in progress.
loadWebhookConfigUnshared(st, c, configured) ==
    IF st.webhookConfig # 0
    THEN [st EXCEPT !.callers[c] =
            [pc |-> "resolved", promise |-> 0, value |-> st.webhookConfig,
             found |-> "cached"]]
    ELSE [st EXCEPT
            !.fetches = @ + 1,
            !.promises = Append(@, [state |-> "pending",
                                    fetch |-> st.fetches + 1]),
            !.webhookConfigPromise = Len(st.promises) + 1,
            !.callers[c] = [pc |-> "line127",
                            promise |-> Len(st.promises) + 1, value |-> 0,
                            found |-> "none"]]

\* A caller calls loadWebhookConfig: the code up to its first await or
\* return.
loadWebhookConfig(st, c, configured) ==
    IF st.webhookConfig # 0
    THEN [st EXCEPT !.callers[c] =
            [pc |-> "resolved", promise |-> 0, value |-> st.webhookConfig,
             found |-> "cached"]]
    ELSE IF st.webhookConfigPromise # 0
    THEN [st EXCEPT !.callers[c] =
            [pc |-> "line102", promise |-> st.webhookConfigPromise,
             value |-> 0,
             found |-> st.promises[st.webhookConfigPromise].state]]
    ELSE IF ~configured
    THEN [st EXCEPT !.callers[c] =
            [pc |-> "rejected", promise |-> 0, value |-> 0,
             found |-> "unconfigured"]]
    ELSE [st EXCEPT
            !.fetches = @ + 1,
            !.promises = Append(@, [state |-> "pending",
                                    fetch |-> st.fetches + 1]),
            !.webhookConfigPromise = Len(st.promises) + 1,
            !.callers[c] = [pc |-> "line127",
                            promise |-> Len(st.promises) + 1, value |-> 0,
                            found |-> "none"]]

\* The fetch that promise p awaits settles and the async arrow function
\* runs on: webhookConfig = (the object); return webhookConfig, or the
\* rejection leaves the function.
fetchSettles(st, p, resolves) ==
    IF resolves
    THEN [st EXCEPT !.webhookConfig = st.promises[p].fetch,
                    !.promises[p].state = "fulfilled"]
    ELSE [st EXCEPT !.promises[p].state = "rejected"]

\* The await of line 127 that clears the promise whether it threw or not.
afterAwaitClearing(st, c) ==
    [st EXCEPT
       !.webhookConfigPromise = 0,
       !.callers[c] =
          [pc |-> IF st.promises[st.callers[c].promise].state = "fulfilled"
                  THEN "resolved" ELSE "rejected",
           promise |-> 0,
           value |-> st.promises[st.callers[c].promise].fetch,
           found |-> st.callers[c].found]]

\* const result = await webhookConfigPromise; webhookConfigPromise = null;
\* return result.  The caller's promise has settled.
afterAwait(st, c) ==
    IF st.promises[st.callers[c].promise].state = "fulfilled"
    THEN [st EXCEPT
            !.webhookConfigPromise = 0,
            !.callers[c] = [pc |-> "resolved", promise |-> 0,
                            value |-> st.promises[st.callers[c].promise].fetch,
                            found |-> st.callers[c].found]]
    ELSE [st EXCEPT
            !.callers[c] = [pc |-> "rejected", promise |-> 0,
                            value |-> st.promises[st.callers[c].promise].fetch,
                            found |-> st.callers[c].found]]

\* return webhookConfigPromise: the call settles as the promise has.
afterReturnedPromise(st, c) ==
    [st EXCEPT
       !.callers[c] =
          [pc |-> IF st.promises[st.callers[c].promise].state = "fulfilled"
                  THEN "resolved" ELSE "rejected",
           promise |-> 0,
           value |-> st.promises[st.callers[c].promise].fetch,
           found |-> st.callers[c].found]]

Callers ==
    {"getConfiguredRegions", "getRegionConfig", "getWeeklyForecastWebhookUrl"}

InitLoad ==
    /\ InitIdle
    /\ args \in [configured : BOOLEAN, fetchResolves : BOOLEAN]
    /\ result = [webhookConfig |-> 0, webhookConfigPromise |-> 0,
                 promises |-> <<>>, fetches |-> 0,
                 callers |-> [c \in Callers |->
                                [pc |-> "idle", promise |-> 0, value |-> 0,
                                 found |-> ""]]]

NextLoad ==
    \/ \E c \in Callers :
         /\ result.callers[c].pc = "idle"
         /\ result' = loadWebhookConfig(result, c, args.configured)
         /\ UNCHANGED <<run, args>>
    \/ \E p \in 1 .. Len(result.promises) :
         /\ result.promises[p].state = "pending"
         /\ result' = fetchSettles(result, p, args.fetchResolves)
         /\ UNCHANGED <<run, args>>
    \/ \E c \in Callers :
         /\ result.callers[c].pc = "line127"
         /\ result.promises[result.callers[c].promise].state # "pending"
         /\ result' = afterAwait(result, c)
         /\ UNCHANGED <<run, args>>
    \/ \E c \in Callers :
         /\ result.callers[c].pc = "line102"
         /\ result.promises[result.callers[c].promise].state # "pending"
         /\ result' = afterReturnedPromise(result, c)
         /\ UNCHANGED <<run, args>>

SpecLoad == InitLoad /\ [][NextLoad]_vars

Finished(c) == result.callers[c].pc \in {"resolved", "rejected"}

\* C23: under every interleaving of the callers fetchWebhookConfig is called
\* at most once; a caller that arrives while the fetch is in flight awaits
\* the promise of that one fetch; and every caller that resolves receives
\* the one object the fetch resolved with, which is the cached webhookConfig.
C23_OneFetchShared ==
    /\ result.fetches <= 1
    /\ Len(result.promises) = result.fetches
    /\ \A c \in Callers :
         /\ result.callers[c].pc \in {"line127", "line102"}
               => result.callers[c].promise = 1
         /\ result.callers[c].pc = "resolved"
               => /\ result.callers[c].value = 1
                  /\ result.webhookConfig = 1

\* Three callers resolved with the object of the one fetch: one created the
\* promise, one arrived while the fetch was in flight, one came after it.
C23_Witness ==
    /\ result.fetches = 1
    /\ \A c \in Callers : result.callers[c].pc = "resolved"
    /\ {result.callers[c].found : c \in Callers} = {"none", "pending", "cached"}

\* C29: once the first fetch has rejected, webhookConfig stays unset,
\* webhookConfigPromise keeps the rejected promise, no second fetch is
\* issued, and every call that finishes rejects with the first fetch's error.
C29_FailedFetchNeverRetried ==
    (result.fetches >= 1 /\ result.promises[1].state = "rejected") =>
        /\ result.webhookConfig = 0
        /\ result.webhookConfigPromise = 1
        /\ result.fetches = 1
        /\ \A c \in Callers :
             Finished(c) => /\ result.callers[c].pc = "rejected"
                            /\ result.callers[c].value = 1

\* The caller that started the fetch has rejected, and a call that met the
\* rejected promise has rejected with the same error.
C29_Witness ==
    /\ result.fetches = 1
    /\ result.promises[1].state = "rejected"
    /\ \E c, d \in Callers :
         /\ result.callers[c].found = "none"
         /\ result.callers[c].pc = "rejected"
         /\ result.callers[d].found = "rejected"
         /\ result.callers[d].pc = "rejected"
         /\ result.callers[d].value = result.callers[c].value

====
